---------------------------- MODULE Spec2Model ----------------------------
(***************************************************************************)
(* Model of the n8n-workflows indexing and search engine:                  *)
(*   - the indexing analyzer, the index store with its full-text shadow    *)
(*     and the incremental indexing pipeline of src/src/database.js;      *)
(*   - the direct analysis operation (analyze_workflow) of                 *)
(*     src/src/mcp-server.js.                                              *)
(* Strings are TLA+ strings handled character by character (Len, SubSeq,   *)
(* \o), so that substring tests, splitting and capitalisation are          *)
(* computed the way the JavaScript computes them.                          *)
(***************************************************************************)
EXTENDS Integers, Sequences, FiniteSets, TLC

(***************************************************************************)
(* Bounds of the model.                                                    *)
(***************************************************************************)
\* longest run of one node type in an analysed node array (two runs per array)
MaxRun == 8
\* most rows the AUTOINCREMENT sequence hands out (upserts over all runs)
MaxId == 2
\* last second of the wall clock
MaxClock == 1
\* the number of callers in flight on one WorkflowDatabase
MaxCallers == 3

(***************************************************************************)
(* JavaScript string primitives.                                           *)
(***************************************************************************)
\* String.prototype.includes
Includes(s, sub) ==
    \E i \in 1..(Len(s) + 1 - Len(sub)) : SubSeq(s, i, i + Len(sub) - 1) = sub

LowerLetters == "abcdefghijklmnopqrstuvwxyz"
UpperLetters == "ABCDEFGHIJKLMNOPQRSTUVWXYZ"

\* String.prototype.split(sep) for a one-character separator
RECURSIVE Split(_, _)
Split(s, sep) ==
    IF ~Includes(s, sep) THEN <<s>>
    ELSE LET i == CHOOSE k \in 1..Len(s) :
                      /\ SubSeq(s, k, k) = sep
                      /\ \A j \in 1..(k - 1) : SubSeq(s, j, j) # sep
         IN  <<SubSeq(s, 1, i - 1)>> \o Split(SubSeq(s, i + 1, Len(s)), sep)

\* String.prototype.replace(pat, '') : the first occurrence only
RemoveFirst(s, pat) ==
    IF ~Includes(s, pat) THEN s
    ELSE LET i == CHOOSE k \in 1..(Len(s) + 1 - Len(pat)) :
                      /\ SubSeq(s, k, k + Len(pat) - 1) = pat
                      /\ \A j \in 1..(k - 1) : SubSeq(s, j, j + Len(pat) - 1) # pat
         IN  SubSeq(s, 1, i - 1) \o SubSeq(s, i + Len(pat), Len(s))

\* String.prototype.startsWith / endsWith
StartsWith(s, p) == Len(s) >= Len(p) /\ SubSeq(s, 1, Len(p)) = p
EndsWith(s, p) == Len(s) >= Len(p) /\ SubSeq(s, Len(s) + 1 - Len(p), Len(s)) = p

\* String.prototype.trim (spaces)
RECURSIVE Trim(_)
Trim(s) ==
    IF s = "" THEN ""
    ELSE IF SubSeq(s, 1, 1) = " " THEN Trim(SubSeq(s, 2, Len(s)))
    ELSE IF SubSeq(s, Len(s), Len(s)) = " " THEN Trim(SubSeq(s, 1, Len(s) - 1))
    ELSE s

ToLowerChar(c) ==
    IF \E i \in 1..Len(UpperLetters) : SubSeq(UpperLetters, i, i) = c
    THEN LET i == CHOOSE k \in 1..Len(UpperLetters) : SubSeq(UpperLetters, k, k) = c
         IN  SubSeq(LowerLetters, i, i)
    ELSE c

\* String.prototype.toLowerCase
RECURSIVE ToLower(_)
ToLower(s) ==
    IF s = "" THEN "" ELSE ToLowerChar(SubSeq(s, 1, 1)) \o ToLower(SubSeq(s, 2, Len(s)))

\* /^\d+$/.test(s)
IsDigits(s) ==
    /\ s # ""
    /\ \A i \in 1..Len(s) : Includes("0123456789", SubSeq(s, i, i))

\* Array.prototype.join(sep)
RECURSIVE Join(_, _)
Join(seq, sep) ==
    IF Len(seq) = 0 THEN ""
    ELSE IF Len(seq) = 1 THEN seq[1]
    ELSE seq[1] \o sep \o Join(Tail(seq), sep)

\* String.prototype.split('.')
SplitDot(s) == Split(s, ".")

\* String.prototype.toUpperCase on one character
ToUpperChar(c) ==
    IF \E i \in 1..Len(LowerLetters) : SubSeq(LowerLetters, i, i) = c
    THEN LET i == CHOOSE k \in 1..Len(LowerLetters) : SubSeq(LowerLetters, k, k) = c
         IN  SubSeq(UpperLetters, i, i)
    ELSE c

\* s.charAt(0).toUpperCase() + s.slice(1)
CapFirst(s) ==
    IF s = "" THEN "" ELSE ToUpperChar(SubSeq(s, 1, 1)) \o SubSeq(s, 2, Len(s))

\* Set.prototype.add on a JavaScript Set kept in insertion order
SetAdd(seq, x) ==
    IF \E i \in 1..Len(seq) : seq[i] = x THEN seq ELSE Append(seq, x)

\* Array with n copies of x
RECURSIVE Rep(_, _)
Rep(x, n) == IF n = 0 THEN <<>> ELSE <<x>> \o Rep(x, n - 1)

(***************************************************************************)
(* Nodes and documents.  A node is [hasType, type]: hasType = FALSE is a   *)
(* node object without a type property.  A document is what the bytes of   *)
(* a corpus file (or of a workflow_json argument) parse to, or a document  *)
(* that is not well-formed JSON.                                           *)
(***************************************************************************)
Node(t) == [hasType |-> TRUE, type |-> t]
UntypedNode == [hasType |-> FALSE, type |-> ""]

WebhookNode  == Node("n8n-nodes-base.webhook")
SlackNode    == Node("n8n-nodes-base.slack")
SetNode      == Node("n8n-nodes-base.set")
CronNode     == Node("n8n-nodes-base.cron")
ScheduleNode == Node("n8n-nodes-base.scheduleTrigger")
ShopifyNode  == Node("n8n-nodes-base.shopifyTrigger")
CodeNode     == Node("n8n-nodes-base.code")
AgentNode    == Node("@n8n/n8n-nodes-langchain.agent")
PollNode     == Node("n8n-nodes-poll.trigger")

NodeCatalog ==
    { WebhookNode, SlackNode, SetNode, CronNode, ScheduleNode, ShopifyNode,
      CodeNode, AgentNode, PollNode, UntypedNode }

\* a document with every optional property absent; wellFormed = FALSE stands
\* for bytes that are not JSON, idBindable = FALSE for an id property that is
\* not a string or a number (an object, true), which better-sqlite3 refuses
\* to bind
EmptyDoc ==
    [ wellFormed |-> TRUE, name |-> "", hasNodes |-> FALSE, nodes |-> <<>>,
      active |-> FALSE, tags |-> <<>>, id |-> "", idBindable |-> TRUE,
      createdAt |-> "", updatedAt |-> "", size |-> 2 ]

NodesDoc(ns) == [EmptyDoc EXCEPT !.hasNodes = TRUE, !.nodes = ns]

MalformedDoc == [EmptyDoc EXCEPT !.wellFormed = FALSE]

(***************************************************************************)
(* The indexing analyzer: database.js analyzeNodes / analyzeWorkflow.      *)
(***************************************************************************)
LowMax == 5
MediumMax == 15

\* database.js 198: const nodeType = node.type || ''
NodeTypeOf(node) == IF node.hasType THEN node.type ELSE ""

\* database.js 200-209: the integration a node contributes
NodeIntegration(integrations, nodeType) ==
    IF Includes(nodeType, ".")
    THEN LET parts == SplitDot(nodeType)
         IN  IF Len(parts) >= 2
             THEN IF parts[2] # "core" /\ parts[2] # "base"
                  THEN SetAdd(integrations, CapFirst(parts[2]))
                  ELSE integrations
             ELSE integrations
    ELSE integrations

\* database.js 211-218: the trigger type after looking at one more node
NodeTrigger(triggerType, nodeType) ==
    IF Includes(nodeType, "webhook") THEN "Webhook"
    ELSE IF Includes(nodeType, "cron") \/ Includes(nodeType, "schedule") THEN "Scheduled"
    ELSE IF Includes(nodeType, "trigger") THEN "Triggered"
    ELSE triggerType

\* database.js 197-219: nodes.forEach, from node i on
RECURSIVE analyzeNodesFrom(_, _, _)
analyzeNodesFrom(nodes, i, acc) ==
    IF i > Len(nodes) THEN acc
    ELSE analyzeNodesFrom(nodes, i + 1,
            [ triggerType  |-> NodeTrigger(acc.triggerType, NodeTypeOf(nodes[i])),
              integrations |-> NodeIntegration(acc.integrations, NodeTypeOf(nodes[i])) ])

analyzeNodes(nodes) ==
    analyzeNodesFrom(nodes, 1, [triggerType |-> "Manual", integrations |-> <<>>])

\* database.js 169-176
dbComplexity(nodeCount) ==
    IF nodeCount <= LowMax THEN "low"
    ELSE IF nodeCount <= MediumMax THEN "medium"
    ELSE "high"

\* database.js 123-132
specialTerms ==
    [ http |-> "HTTP", api |-> "API", webhook |-> "Webhook",
      automation |-> "Automation", automate |-> "Automate",
      scheduled |-> "Scheduled", triggered |-> "Triggered", manual |-> "Manual" ]

\* database.js 121-135: one part of the file name
FormatPart(part) ==
    IF ToLower(part) \in DOMAIN specialTerms THEN specialTerms[ToLower(part)]
    ELSE CapFirst(part)

\* database.js 112-136
formatWorkflowName(filename) ==
    LET parts      == Split(RemoveFirst(filename, ".json"), "_")
        startIndex == IF IsDigits(parts[1]) THEN 1 ELSE 0
        cleanParts == SubSeq(parts, startIndex + 1, Len(parts))
    IN  Join([i \in 1..Len(cleanParts) |-> FormatPart(cleanParts[i])], " ")

\* database.js 224-247
generateDescription(workflow, triggerType, integrations) ==
    LET trig == IF triggerType # "Manual" THEN <<triggerType \o " workflow">>
                ELSE <<"Manual workflow">>
        first3 == SubSeq(integrations, 1, IF Len(integrations) < 3 THEN Len(integrations) ELSE 3)
        integrationList ==
            IF Len(integrations) > 3
            THEN Append(first3, "+" \o ToString(Len(integrations) - 3) \o " more")
            ELSE first3
        integ == IF Len(integrations) > 0
                 THEN <<"integrating " \o Join(integrationList, ", ")>>
                 ELSE <<>>
        cplx == <<"with " \o ToString(workflow.node_count) \o " nodes ("
                    \o workflow.complexity \o " complexity)">>
    IN  Join(trig \o integ \o cplx, " ")

\* crypto md5 of the file's bytes; documents are numbered and two documents
\* with different numbers have different bytes, hence different digests
getFileHash(docId) == "md5-" \o ToString(docId)

\* the value analyzeWorkflow returns when it catches an exception
Null == [isNull |-> TRUE]

\* database.js 138-191: filename, the file's document and its number
analyzeWorkflow(filename, data, docId) ==
    IF ~data.wellFormed THEN Null
    ELSE
    LET nodes      == IF data.hasNodes THEN data.nodes ELSE <<>>
        jsonName   == Trim(data.name)
        name       == IF /\ jsonName # ""
                         /\ jsonName # RemoveFirst(filename, ".json")
                         /\ ~StartsWith(jsonName, "My workflow")
                      THEN jsonName
                      ELSE formatWorkflowName(filename)
        nodeCount  == Len(nodes)
        analysed   == analyzeNodes(nodes)
        partial    == [ node_count |-> nodeCount, complexity |-> dbComplexity(nodeCount) ]
    IN  [ isNull       |-> FALSE,
          filename     |-> filename,
          name         |-> name,
          workflow_id  |-> data.id,
          idBindable   |-> data.idBindable,
          active       |-> data.active,
          tags         |-> data.tags,
          created_at   |-> data.createdAt,
          updated_at   |-> data.updatedAt,
          file_hash    |-> getFileHash(docId),
          file_size    |-> data.size,
          node_count   |-> nodeCount,
          complexity   |-> dbComplexity(nodeCount),
          trigger_type |-> analysed.triggerType,
          integrations |-> analysed.integrations,
          description  |-> generateDescription(partial, analysed.triggerType,
                                               analysed.integrations) ]

(***************************************************************************)
(* Direct analysis: mcp-server.js analyzeWorkflow and its helpers.         *)
(***************************************************************************)
\* getComplexityLevel with the upper threshold exclusive
getComplexityLevelExclusive(nodeCount) ==
    IF nodeCount <= LowMax THEN "low"
    ELSE IF nodeCount < MediumMax THEN "medium"
    ELSE "high"

\* mcp-server.js 1714-1718
getComplexityLevel(nodeCount) ==
    IF nodeCount <= LowMax THEN "low"
    ELSE IF nodeCount <= MediumMax THEN "medium"
    ELSE "high"

\* mcp-server.js 1723-1727: the filter's predicate
IsTriggerNode(n) ==
    \/ Includes(n.type, "trigger")
    \/ Includes(n.type, "Trigger")
    \/ Includes(n.type, "webhook")

\* mcp-server.js 1723: workflow.nodes.filter(...)
RECURSIVE FilterTriggerNodes(_)
FilterTriggerNodes(nodes) ==
    IF Len(nodes) = 0 THEN <<>>
    ELSE IF IsTriggerNode(nodes[1]) THEN <<nodes[1]>> \o FilterTriggerNodes(Tail(nodes))
    ELSE FilterTriggerNodes(Tail(nodes))

\* mcp-server.js 1720-1738 (every node has a type: n.type.includes throws
\* on a node without one, see mcpAnalyzeWorkflow)
determineTriggerType(workflow) ==
    IF ~workflow.hasNodes THEN "Unknown"
    ELSE LET triggerNodes == FilterTriggerNodes(workflow.nodes)
         IN  IF Len(triggerNodes) = 0 THEN "Manual"
             ELSE IF Len(triggerNodes) > 1 THEN "Complex"
             ELSE IF Includes(triggerNodes[1].type, "webhook") THEN "Webhook"
             ELSE IF Includes(triggerNodes[1].type, "schedule") THEN "Scheduled"
             ELSE IF Includes(triggerNodes[1].type, "trigger") THEN "Triggered"
             ELSE "Manual"

\* mcp-server.js 1744-1759: the integration a node contributes
ExtractOne(integrations, node) ==
    IF node.hasType /\ node.type # "" /\ ~Includes(node.type, "n8n-nodes-base.")
    THEN LET integration == SplitDot(node.type)[1]
         IN  IF integration # "" /\ integration \notin {"start", "noOp", "function", "set"}
             THEN SetAdd(integrations, integration)
             ELSE integrations
    ELSE IF node.hasType /\ node.type # ""
    THEN LET parts == SplitDot(node.type)
         IN  IF Len(parts) > 1
             THEN IF parts[2] \notin {"start", "noOp", "function", "set", "if", "merge", "switch"}
                  THEN SetAdd(integrations, CapFirst(parts[2]))
                  ELSE integrations
             ELSE integrations
    ELSE integrations

RECURSIVE extractFrom(_, _, _)
extractFrom(nodes, i, acc) ==
    IF i > Len(nodes) THEN acc ELSE extractFrom(nodes, i + 1, ExtractOne(acc, nodes[i]))

\* mcp-server.js 1740-1764
extractIntegrations(workflow) ==
    IF workflow.hasNodes THEN extractFrom(workflow.nodes, 1, <<>>) ELSE <<>>

\* mcp-server.js 1007-1077: the analysis returned for workflow_json, or an
\* error response (JSON.parse failed, or the analysis threw: a node without
\* type makes n.type.includes throw a TypeError)
mcpAnalyzeWorkflow(workflow) ==
    IF ~workflow.wellFormed THEN [isError |-> TRUE]
    ELSE IF workflow.hasNodes /\ \E i \in 1..Len(workflow.nodes) : ~workflow.nodes[i].hasType
    THEN [isError |-> TRUE]
    ELSE [ isError      |-> FALSE,
           node_count   |-> IF workflow.hasNodes THEN Len(workflow.nodes) ELSE 0,
           complexity   |-> getComplexityLevel(IF workflow.hasNodes
                                               THEN Len(workflow.nodes) ELSE 0),
           trigger_type |-> determineTriggerType(workflow),
           integrations |-> extractIntegrations(workflow) ]

(***************************************************************************)
(* JSON text of an array of strings (no character of the strings of this   *)
(* model needs escaping).                                                  *)
(***************************************************************************)
\* JSON.stringify of an array of strings
JsonStringify(arr) ==
    "[" \o Join([i \in 1..Len(arr) |-> "\"" \o arr[i] \o "\""], ",") \o "]"

\* JSON.parse(text || '[]') of such a text: the pieces between quotes
JsonParse(text) ==
    LET parts == Split(IF text = "" THEN "[]" ELSE text, "\"")
    IN  [i \in 1..((Len(parts) - 1) \div 2) |-> parts[2 * i]]

(***************************************************************************)
(* The corpus: the files of the workflows directory.  A file holds one of  *)
(* the documents of DocCatalog, named by its number; 0 is "no such file".  *)
(***************************************************************************)
OrderFile == "0001_Order_Sync.json"
HookFile  == "0002_http_webhook.json"
ReadmeFile == "README.md"
Filenames == {OrderFile, HookFile}

DocCatalog ==
    << [ NodesDoc(<<ShopifyNode, SetNode, SlackNode>>) EXCEPT
            !.name = "Shopify to Slack", !.active = TRUE, !.tags = <<"sales">>,
            !.id = "w1", !.createdAt = "2024-01-01", !.updatedAt = "2024-02-01",
            !.size = 300 ],
       [ NodesDoc(<<WebhookNode, CronNode>>) EXCEPT !.size = 200 ],
       MalformedDoc,
       [ NodesDoc(<<SlackNode>>) EXCEPT !.idBindable = FALSE, !.size = 100 ] >>

DocIds == 1..Len(DocCatalog)

VARIABLES
    initialized,    \* WorkflowDatabase.initialized
    workflows,      \* the rows of table workflows
    workflows_fts,  \* the rows of the FTS5 table workflows_fts
    nextId,         \* the next value of the AUTOINCREMENT sequence
    now,            \* the wall clock behind CURRENT_TIMESTAMP, in seconds
    corpus,         \* file name -> number of the document the file holds, 0: none
    pc,             \* "idle", or "indexing" inside indexWorkflows' loop
    forceReindex,   \* the running indexWorkflows' argument
    remaining,      \* the files of jsonFiles the loop has not reached yet
    processed, skipped, errors, total,   \* the loop's counters and jsonFiles.length:
                    \* once pc is back to "idle", what indexWorkflows returned
    cleanRuns,      \* finished runs with force = false since the corpus last changed
    input,          \* the document handed to the analyzers
    dbOut,          \* what database.js analyzeWorkflow returned for input
    mcpOut,         \* what mcp-server.js analyzeWorkflow returned for input
    call,           \* the latest search request: its entry point and arguments
    reply,          \* the reply to call
    prevReply,      \* the reply to the request before call, if it was the same request
    walk,           \* the pages a client has fetched in a row, from the first on
    statsCache,     \* this.statsCache of the long-lived MCP server
    statsCacheTime, \* this.statsCacheTime of the long-lived MCP server
    statsReply,     \* the latest reply to a statistics request, and how it was made
    computed,       \* the latest statistics computed from the store, and when
    serverDb,       \* this.db of the MCP server: "open", or "null"
    lazy,           \* the calls of initialize, indexWorkflows and getStats in flight on one WorkflowDatabase
    opened,         \* the number of connections new Database(dbPath) has made for them; this.db is the last one
    stream,         \* the streamed tool call in flight on POST /mcp/stream: its position, its locals and the events written
    rpc,            \* the latest message given to transport.onMessage, and what the handler returned
    sse             \* the SSE clients of the HTTP transport, and whether the process runs

storeVars == <<initialized, workflows, workflows_fts, nextId>>
runVars == <<pc, forceReindex, remaining, processed, skipped, errors, total>>
analyzeVars == <<input, dbOut, mcpOut>>
searchVars == <<call, reply, prevReply, walk>>
statsVars == <<statsCache, statsCacheTime, statsReply, computed>>
hostVars == <<serverDb, lazy, opened, stream, rpc, sse>>
serverVars == <<searchVars, statsVars, hostVars>>
vars == <<initialized, workflows, workflows_fts, nextId, now, corpus, pc,
          forceReindex, remaining, processed, skipped, errors, total,
          cleanRuns, input, dbOut, mcpOut, call, reply, prevReply, walk,
          statsCache, statsCacheTime, statsReply, computed, serverDb,
          lazy,
          opened,
          stream,
          rpc,
          sse>>

NotRun == [ran |-> FALSE]

\* no search request yet, no page fetched yet
NoCall == [entry |-> "none"]
NoWalk == [entry |-> "none"]

\* mcp-server.js 857: a statsCache that holds no snapshot (undefined)
NoStats == [cached |-> FALSE]

\* mcp-server.js 316-339: setupDatabase connects if the database file is
\* there and holds table workflows
setupDatabase == IF initialized THEN "open" ELSE "null"

\* the callers that may be in flight on one WorkflowDatabase at a time
Callers == 1..MaxCallers

\* database.js 20, 249, 419: the operations that initialize the database if
\* it is not initialized yet
LazyOps ==
    {[name |-> "initialize"], [name |-> "getStats"]}
        \cup {[name |-> "indexWorkflows", force |-> b] : b \in BOOLEAN}

NotCalled == [at |-> "idle"]
NoneInFlight == [c \in Callers |-> NotCalled]

\* no streamed call has been made
NoStream == [at |-> "idle", events |-> <<>>]

\* no message has been handled
NoMessage == [handled |-> FALSE]

\* the connections that GET /stream can hold at once
SseConnections == Callers

\* the HTTP server has started: the process runs and no client is connected
NoClients ==
    [running |-> TRUE, raised |-> FALSE, conns |-> {}, clients |-> {},
     due |-> [k \in SseConnections |-> 0], got |-> [k \in SseConnections |-> 0],
     events |-> 0]

\* the servers at rest: nothing asked, nothing answered
ServersAtRest ==
    /\ sse = NoClients
    /\ rpc = NoMessage
    /\ stream = NoStream
    /\ opened = 0
    /\ lazy = NoneInFlight
    /\ serverDb = setupDatabase
    /\ call = NoCall
    /\ reply = NotRun
    /\ prevReply = NotRun
    /\ walk = NoWalk
    /\ statsCache = NoStats
    /\ statsCacheTime = 0
    /\ statsReply = NotRun
    /\ computed = NotRun

(***************************************************************************)
(* The index store: database.js createTables, upsertWorkflow and the       *)
(* reads by file name.                                                     *)
(***************************************************************************)
\* database.js 293-319: the row INSERT OR REPLACE writes for a workflow
NewRow(workflow, id, timestamp) ==
    [ id           |-> id,
      filename     |-> workflow.filename,
      name         |-> workflow.name,
      workflow_id  |-> workflow.workflow_id,
      active       |-> IF workflow.active THEN 1 ELSE 0,
      description  |-> workflow.description,
      trigger_type |-> workflow.trigger_type,
      complexity   |-> workflow.complexity,
      node_count   |-> workflow.node_count,
      integrations |-> JsonStringify(workflow.integrations),
      tags         |-> JsonStringify(workflow.tags),
      created_at   |-> workflow.created_at,
      updated_at   |-> workflow.updated_at,
      file_hash    |-> workflow.file_hash,
      file_size    |-> workflow.file_size,
      analyzed_at  |-> timestamp ]

\* ConflictingRows without the UNIQUE constraint on filename: nothing to replace
ConflictingRowsNotUnique(table, filename) == {}

\* database.js 48, 295: the rows that REPLACE deletes to keep filename UNIQUE
ConflictingRows(table, filename) == {r \in table : r.filename = filename}

\* the rowid the FTS5 table gives its next row
NextRowid(fts) ==
    IF fts = {} THEN 1
    ELSE (CHOOSE m \in {r.rowid : r \in fts} : \A r \in fts : r.rowid <= m) + 1

\* database.js 85-90: trigger workflows_ai, AFTER INSERT ON workflows
workflows_ai(fts, new) ==
    fts \cup { [ rowid |-> NextRowid(fts), filename |-> new.filename,
                 name |-> new.name, description |-> new.description,
                 integrations |-> new.integrations, tags |-> new.tags ] }

\* database.js 92-96: trigger workflows_ad, AFTER DELETE ON workflows
workflows_ad(fts, old) == {r \in fts : r.filename # old.filename}

\* database.js 34-38, 293-319: the rows REPLACE deletes fire no DELETE
\* trigger, because SQLite fires one for them only when recursive_triggers
\* is on, and initDatabase's pragmas leave it off; nor is trigger
\* workflows_au fired, the statement being no UPDATE
ReplaceDeleteTriggers(fts, deleted) == fts

\* database.js 293-319: INSERT OR REPLACE INTO workflows, with its triggers,
\* on store s = [workflows, workflows_fts, nextId, now]
Upserted(s, workflow) ==
    LET deleted == ConflictingRows(s.workflows, workflow.filename)
        new     == NewRow(workflow, s.nextId, s.now)
    IN  [ workflows     |-> (s.workflows \ deleted) \cup {new},
          workflows_fts |-> workflows_ai(ReplaceDeleteTriggers(s.workflows_fts, deleted), new),
          nextId        |-> s.nextId + 1,
          now           |-> s.now ]

\* database.js 293-319: upsertWorkflow on the store of the state
upsertWorkflow(workflow) ==
    LET s == Upserted([workflows |-> workflows, workflows_fts |-> workflows_fts,
                       nextId |-> nextId, now |-> now], workflow)
    IN  /\ workflows' = s.workflows
        /\ workflows_fts' = s.workflows_fts
        /\ nextId' = s.nextId

\* whether better-sqlite3 binds the statement's parameters (it throws a
\* TypeError on a value that is no number, string, bigint, buffer or null)
Bindable(workflow) == workflow.idBindable

NoRow == [found |-> FALSE]

\* database.js 289-291
getWorkflowByFilename(filename) ==
    IF \E r \in workflows : r.filename = filename
    THEN [found |-> TRUE, row |-> CHOOSE r \in workflows : r.filename = filename]
    ELSE NoRow

\* database.js 467-489
getWorkflowDetail(filename) ==
    IF ~getWorkflowByFilename(filename).found THEN NoRow
    ELSE LET row == getWorkflowByFilename(filename).row
         IN  [ found        |-> TRUE,
               row          |-> row,
               integrations |-> JsonParse(row.integrations),
               tags         |-> JsonParse(row.tags),
               raw_workflow |-> corpus[filename] ]

(***************************************************************************)
(* Full-text search of one word: database.js searchWorkflows with a query  *)
(* of one term of two or more characters, which buildFTSQuery turns into   *)
(* the prefix query term*.  FTS5's default tokenizer (unicode61) cuts a    *)
(* column into its runs of letters and digits, in lower case.              *)
(***************************************************************************)
IsTokenChar(c) ==
    Includes(LowerLetters, c) \/ Includes(UpperLetters, c) \/ Includes("0123456789", c)

\* the places of text s where a token starts
TokenStarts(s) ==
    { i \in 1..Len(s) :
        /\ IsTokenChar(SubSeq(s, i, i))
        /\ i = 1 \/ ~IsTokenChar(SubSeq(s, i - 1, i - 1)) }

\* the place where the token starting at i ends
TokenEnd(s, i) ==
    CHOOSE j \in i..Len(s) :
        /\ \A k \in i..j : IsTokenChar(SubSeq(s, k, k))
        /\ j = Len(s) \/ ~IsTokenChar(SubSeq(s, j + 1, j + 1))

\* the token starting at i, in lower case
TokenAt(s, i) == ToLower(SubSeq(s, i, TokenEnd(s, i)))

\* the tokens of text s
Tokenize(s) == {TokenAt(s, i) : i \in TokenStarts(s)}

\* the tokens of the five columns of a row of workflows_fts (database.js 68-75)
FtsTokens(r) ==
    Tokenize(r.filename) \cup Tokenize(r.name) \cup Tokenize(r.description)
        \cup Tokenize(r.integrations) \cup Tokenize(r.tags)

\* workflows_fts MATCH 'term*'
FtsMatch(r, term) == \E t \in FtsTokens(r) : StartsWith(t, ToLower(term))

\* database.js 369-377: SELECT w.* FROM workflows w JOIN workflows_fts fts
\* ON w.filename = fts.filename WHERE workflows_fts MATCH ?  -- one result
\* row per pair of a record and a matching shadow row of its file name
SearchHits(term) ==
    { <<w.id, r.rowid>> : <<w, r>> \in
        { p \in workflows \X workflows_fts :
            p[1].filename = p[2].filename /\ FtsMatch(p[2], term) } }

\* the file names of the records a search for term returns
SearchFilenames(term) ==
    { w.filename : w \in { x \in workflows :
        \E r \in workflows_fts : r.filename = x.filename /\ FtsMatch(r, term) } }

(***************************************************************************)
(* The indexing pipeline: database.js indexWorkflows.                      *)
(***************************************************************************)
\* database.js 254: fs.readdir(this.workflowsDir)
workflowFiles == {f \in Filenames : corpus[f] # 0} \cup {ReadmeFile}

\* database.js 255
jsonFiles == {f \in workflowFiles : EndsWith(f, ".json")}

\* database.js 262-263: analyzeWorkflow(filePath) for every file name and
\* every document the file may hold
AnalysisOf ==
    [f \in Filenames, d \in DocIds |-> analyzeWorkflow(f, DocCatalog[d], d)]

\* the analysis of file f as the corpus holds it
Analyzed(f) == AnalysisOf[f, corpus[f]]

\* ShouldSkip with the digest comparison inverted
ShouldSkipInverted(force, existing, workflow) ==
    ~force /\ existing.found /\ existing.row.file_hash # workflow.file_hash

\* ShouldSkip that never skips
ShouldSkipNever(force, existing, workflow) == FALSE

\* database.js 273: the condition of the skip
ShouldSkip(force, existing, workflow) ==
    ~force /\ existing.found /\ existing.row.file_hash = workflow.file_hash

\* the files a run started now will upsert (the AUTOINCREMENT values it needs)
WillUpsert(force) ==
    { f \in jsonFiles : /\ ~Analyzed(f).isNull
                        /\ ~ShouldSkip(force, getWorkflowByFilename(f), Analyzed(f))
                        /\ Bindable(Analyzed(f)) }

\* database.js 20-24, 43-105: initialize; the tables and triggers are created
\* IF NOT EXISTS
initialize == initialized' = TRUE

\* database.js 20-24: initialize() called on a database not yet initialized
\* (init-db.js 75, http-server.js at start-up)
Initialize ==
    /\ pc = "idle"
    /\ ~initialized
    /\ initialize
    /\ UNCHANGED <<workflows, workflows_fts, nextId, now, corpus, runVars,
                   cleanRuns, analyzeVars, serverVars>>

\* StartIndex that first deletes the records of the files the directory no
\* longer lists
StartIndexPurging(force) ==
    /\ pc = "idle"
    /\ nextId + Cardinality(WillUpsert(force)) - 1 <= MaxId
    /\ initialize
    /\ workflows' = {w \in workflows : w.filename \in jsonFiles}
    /\ pc' = "indexing"
    /\ forceReindex' = force
    /\ remaining' = jsonFiles
    /\ total' = Cardinality(jsonFiles)
    /\ processed' = 0 /\ skipped' = 0 /\ errors' = 0
    /\ UNCHANGED <<workflows_fts, nextId, now, corpus,
                   cleanRuns, analyzeVars, serverVars>>

\* database.js 249-259: lazy initialization, directory listing, counters
StartIndex(force) ==
    /\ pc = "idle"
    /\ nextId + Cardinality(WillUpsert(force)) - 1 <= MaxId
    /\ initialize
    /\ pc' = "indexing"
    /\ forceReindex' = force
    /\ remaining' = jsonFiles
    /\ total' = Cardinality(jsonFiles)
    /\ processed' = 0 /\ skipped' = 0 /\ errors' = 0
    /\ UNCHANGED <<workflows, workflows_fts, nextId, now, corpus,
                   cleanRuns, analyzeVars, serverVars>>

\* IndexError that ends the run at the first file that fails analysis
IndexErrorAborts(f) ==
    /\ pc = "indexing" /\ f \in remaining
    /\ Analyzed(f).isNull
    /\ errors' = errors + 1
    /\ remaining' = {}
    /\ pc' = "idle"
    /\ UNCHANGED <<storeVars, now, corpus, forceReindex, processed, skipped,
                   total, cleanRuns, analyzeVars, serverVars>>

\* database.js 265-268: the analysis failed
IndexError(f) ==
    /\ pc = "indexing" /\ f \in remaining
    /\ Analyzed(f).isNull
    /\ errors' = errors + 1
    /\ remaining' = remaining \ {f}
    /\ UNCHANGED <<storeVars, now, corpus, pc, forceReindex, processed, skipped,
                   total, cleanRuns, analyzeVars, serverVars>>

\* database.js 270-276: the stored digest is the fresh one
IndexSkip(f) ==
    /\ pc = "indexing" /\ f \in remaining
    /\ ~Analyzed(f).isNull
    /\ ShouldSkip(forceReindex, getWorkflowByFilename(f), Analyzed(f))
    /\ skipped' = skipped + 1
    /\ remaining' = remaining \ {f}
    /\ UNCHANGED <<storeVars, now, corpus, pc, forceReindex, processed, errors,
                   total, cleanRuns, analyzeVars, serverVars>>

\* database.js 278-279
IndexUpsert(f) ==
    /\ pc = "indexing" /\ f \in remaining
    /\ ~Analyzed(f).isNull
    /\ ~ShouldSkip(forceReindex, getWorkflowByFilename(f), Analyzed(f))
    /\ Bindable(Analyzed(f))
    /\ upsertWorkflow(Analyzed(f))
    /\ processed' = processed + 1
    /\ remaining' = remaining \ {f}
    /\ UNCHANGED <<initialized, now, corpus, pc, forceReindex, skipped, errors,
                   total, cleanRuns, analyzeVars, serverVars>>

\* IndexUpsertThrows whose statement has written the record before it throws
IndexUpsertThrowsLate(f) ==
    /\ pc = "indexing" /\ f \in remaining
    /\ ~Analyzed(f).isNull
    /\ ~ShouldSkip(forceReindex, getWorkflowByFilename(f), Analyzed(f))
    /\ ~Bindable(Analyzed(f))
    /\ upsertWorkflow(Analyzed(f))
    /\ errors' = errors + 1
    /\ remaining' = remaining \ {f}
    /\ UNCHANGED <<initialized, now, corpus, pc, forceReindex, processed, skipped,
                   total, cleanRuns, analyzeVars, serverVars>>

\* database.js 278, 280-283: upsertWorkflow threw
IndexUpsertThrows(f) ==
    /\ pc = "indexing" /\ f \in remaining
    /\ ~Analyzed(f).isNull
    /\ ~ShouldSkip(forceReindex, getWorkflowByFilename(f), Analyzed(f))
    /\ ~Bindable(Analyzed(f))
    /\ errors' = errors + 1
    /\ remaining' = remaining \ {f}
    /\ UNCHANGED <<storeVars, now, corpus, pc, forceReindex, processed, skipped,
                   total, cleanRuns, analyzeVars, serverVars>>

\* database.js 286: return { processed, skipped, errors, total }
FinishIndex ==
    /\ pc = "indexing" /\ remaining = {}
    /\ pc' = "idle"
    /\ cleanRuns' = IF forceReindex THEN 0
                    ELSE IF cleanRuns < 2 THEN cleanRuns + 1 ELSE 2
    /\ UNCHANGED <<storeVars, now, corpus, forceReindex, remaining, processed,
                   skipped, errors, total, analyzeVars, serverVars>>

(***************************************************************************)
(* The environment: the corpus is written by its owner between runs, and   *)
(* time passes.                                                            *)
(***************************************************************************)
WriteFile(f, d) ==
    /\ pc = "idle"
    /\ corpus[f] # d
    /\ corpus' = [corpus EXCEPT ![f] = d]
    /\ cleanRuns' = 0
    /\ UNCHANGED <<storeVars, now, runVars, analyzeVars, serverVars>>

Tick ==
    /\ now < MaxClock
    /\ now' = now + 1
    /\ UNCHANGED <<storeVars, corpus, runVars, cleanRuns, analyzeVars, serverVars>>

Init ==
    /\ initialized = FALSE
    /\ workflows = {}
    /\ workflows_fts = {}
    /\ nextId = 1
    /\ now = 0
    /\ corpus = [f \in Filenames |-> 0]
    /\ pc = "idle"
    /\ forceReindex = FALSE
    /\ remaining = {}
    /\ processed = 0 /\ skipped = 0 /\ errors = 0 /\ total = 0
    /\ cleanRuns = 0
    /\ input = EmptyDoc
    /\ dbOut = NotRun
    /\ mcpOut = NotRun
    /\ ServersAtRest

Next ==
    \/ Initialize
    \/ \E force \in BOOLEAN : StartIndex(force)
    \/ \E f \in Filenames : IndexError(f)
    \/ \E f \in Filenames : IndexSkip(f)
    \/ \E f \in Filenames : IndexUpsert(f)
    \/ \E f \in Filenames : IndexUpsertThrows(f)
    \/ FinishIndex
    \/ \E f \in Filenames, d \in {0} \cup DocIds : WriteFile(f, d)
    \/ Tick

Spec == Init /\ [][Next]_vars

(***************************************************************************)
(* The two analyzers as pure functions of a document: the document is      *)
(* drawn from AnalyzeInputs, and each analyzer is applied to it.           *)
(***************************************************************************)
\* node arrays made of two runs, each of one node type
NodeArrays ==
    { Rep(a, i) \o Rep(b, j) : <<a, b>> \in NodeCatalog \X NodeCatalog,
                               <<i, j>> \in (0..MaxRun) \X (0..MaxRun) }

AnalyzeInputs == {NodesDoc(ns) : ns \in NodeArrays} \cup {EmptyDoc, MalformedDoc}

InitAnalyze ==
    /\ initialized = FALSE
    /\ workflows = {}
    /\ workflows_fts = {}
    /\ nextId = 1
    /\ now = 0
    /\ corpus = [f \in Filenames |-> 0]
    /\ pc = "idle"
    /\ forceReindex = FALSE
    /\ remaining = {}
    /\ processed = 0 /\ skipped = 0 /\ errors = 0 /\ total = 0
    /\ cleanRuns = 0
    /\ input \in AnalyzeInputs
    /\ dbOut = NotRun
    /\ mcpOut = NotRun
    /\ ServersAtRest

\* database.js 263: the pipeline analyses the file holding the document
IndexAnalyze ==
    /\ ~dbOut.ran
    /\ dbOut' = [ran |-> TRUE, out |-> analyzeWorkflow(OrderFile, input, 1)]
    /\ UNCHANGED <<storeVars, now, corpus, runVars, cleanRuns, input, mcpOut,
                   serverVars>>

\* mcp-server.js 630: tool analyze_workflow on the document's bytes
DirectAnalyze ==
    /\ ~mcpOut.ran
    /\ mcpOut' = [ran |-> TRUE, out |-> mcpAnalyzeWorkflow(input)]
    /\ UNCHANGED <<storeVars, now, corpus, runVars, cleanRuns, input, dbOut,
                   serverVars>>

NextAnalyze == IndexAnalyze \/ DirectAnalyze

SpecAnalyze == InitAnalyze /\ [][NextAnalyze]_vars

(***************************************************************************)
(* Properties.                                                             *)
(***************************************************************************)
\* the loop of indexWorkflows takes file f in this step
StepOn(f) == pc = "indexing" /\ f \in remaining /\ f \notin remaining'

\* the number of the document whose digest is h
DocOfHash(h) == CHOOSE d \in DocIds : getFileHash(d) = h

\* the shadow row that mirrors record w
Mirrors(r, w) ==
    /\ r.filename = w.filename
    /\ r.name = w.name
    /\ r.description = w.description
    /\ r.integrations = w.integrations
    /\ r.tags = w.tags

\* words a caller may search for
ProbeTerms == {"slack", "shopify", "sales", "cron", "webhook"}

\* C1: after any sequence of upserts the full-text shadow holds exactly one
\* row per live record, carrying the record's current name, description,
\* integrations and tags, and a search for a word finds a file name only if
\* the word occurs in the current version of that file's record.
C1_ShadowMirrorsLiveRecords ==
    /\ \A w \in workflows :
          /\ Cardinality({r \in workflows_fts : r.filename = w.filename}) = 1
          /\ \A r \in workflows_fts : r.filename = w.filename => Mirrors(r, w)
    /\ \A r \in workflows_fts : \E w \in workflows : w.filename = r.filename
    /\ \A term \in ProbeTerms : \A w \in workflows :
          w.filename \in SearchFilenames(term)
              => \E t \in Tokenize(w.filename) \cup Tokenize(w.name)
                            \cup Tokenize(w.description)
                            \cup Tokenize(w.integrations) \cup Tokenize(w.tags) :
                     StartsWith(t, term)

\* the stored row r holds, field by field, what analysis w says
RowHolds(r, w) ==
    /\ r.filename = w.filename
    /\ r.name = w.name
    /\ r.workflow_id = w.workflow_id
    /\ (r.active = 1) = w.active
    /\ r.description = w.description
    /\ r.trigger_type = w.trigger_type
    /\ r.complexity = w.complexity
    /\ r.node_count = w.node_count
    /\ JsonParse(r.integrations) = w.integrations
    /\ JsonParse(r.tags) = w.tags
    /\ r.created_at = w.created_at
    /\ r.updated_at = w.updated_at
    /\ r.file_hash = w.file_hash
    /\ r.file_size = w.file_size

\* C2: there is never more than one record per file name, and an upsert of
\* file f leaves exactly one record for f, each field of which is the value
\* of the newly upserted record (analysed at the time of the upsert), while
\* the records of the other files stay as they were.
C2_OneRecordReplacedWholesale ==
    /\ [](\A r1, r2 \in workflows : r1.filename = r2.filename => r1 = r2)
    /\ [][\A f \in Filenames :
            (StepOn(f) /\ processed' = processed + 1) =>
                /\ Cardinality({r \in workflows' : r.filename = f}) = 1
                /\ \A r \in workflows' : r.filename = f =>
                       RowHolds(r, Analyzed(f)) /\ r.analyzed_at = now
                /\ {r \in workflows' : r.filename # f}
                       = {r \in workflows : r.filename # f}]_vars

\* C2 witness: a file indexed twice, the second time from a changed document
\* (the shadow still shows the description of the version before)
C2_Witness ==
    /\ Cardinality(workflows) = 1
    /\ \E w \in workflows :
          /\ w.id = 2
          /\ \E r \in workflows_fts :
                r.filename = w.filename /\ r.description # w.description

\* the files of the corpus that a run cannot index: the document is not
\* well-formed, or its upsert throws
FailingFiles ==
    { f \in jsonFiles : \/ ~DocCatalog[corpus[f]].wellFormed
                        \/ ~DocCatalog[corpus[f]].idBindable }

\* C3 as stated: the second of two runs with force = false over an unchanged
\* corpus returns processed = 0 and skipped = total, for every corpus.
C3_SecondRunSkipsEveryFile ==
    (pc = "idle" /\ cleanRuns = 2) => (processed = 0 /\ skipped = total)

\* C3 amended: the second of two runs with force = false over an unchanged
\* corpus returns processed = 0, errors = the number of files that fail
\* (analysis or upsert), and skipped = total - errors.
C3_SecondRunSkipsAllButFailures ==
    (pc = "idle" /\ cleanRuns = 2) =>
        /\ processed = 0
        /\ errors = Cardinality(FailingFiles)
        /\ skipped = total - errors

\* C3 witness: a second run over a corpus of one good and one malformed file
C3_Witness ==
    /\ pc = "idle" /\ cleanRuns = 2
    /\ total = 2 /\ skipped = 1 /\ errors = 1
    /\ \E f \in Filenames : corpus[f] # 0 /\ ~DocCatalog[corpus[f]].wellFormed

\* C4: in a run with force = false, the step on a file whose stored record
\* has the digest of the file as it is now increments skipped and writes
\* nothing: records (with their analyzed_at) and shadow rows are unchanged.
C4_SkipWritesNothing ==
    [][\A f \in Filenames :
          ( /\ StepOn(f)
            /\ ~forceReindex
            /\ corpus[f] # 0
            /\ \E r \in workflows :
                  r.filename = f /\ r.file_hash = getFileHash(corpus[f]) )
          => /\ skipped' = skipped + 1
             /\ processed' = processed /\ errors' = errors
             /\ workflows' = workflows
             /\ workflows_fts' = workflows_fts
             /\ nextId' = nextId]_vars

\* C4 witness: a file skipped at a time later than its record's analyzed_at
C4_Witness ==
    /\ pc = "indexing" /\ ~forceReindex
    /\ skipped = 1 /\ processed = 0 /\ errors = 0
    /\ \E r \in workflows :
          r.filename \in jsonFiles \ remaining /\ r.analyzed_at < now

\* what the pipeline does with file f, decided by f's document and f's
\* stored record alone
ExpectedOutcome(f) ==
    IF ~DocCatalog[corpus[f]].wellFormed THEN "error"
    ELSE IF /\ ~forceReindex
            /\ \E r \in workflows :
                  r.filename = f /\ r.file_hash = getFileHash(corpus[f])
    THEN "skipped"
    ELSE IF DocCatalog[corpus[f]].idBindable THEN "processed"
    ELSE "error"

\* C5: the step on a file that fails analysis adds one to errors and writes
\* nothing; the run goes on (it ends only when no file remains), and the
\* step on every file counts the file as its own document and record
\* decide, whatever files failed before it.
C5_BadFileCountedRunContinues ==
    [][ /\ \A f \in Filenames : StepOn(f) =>
              /\ pc' = "indexing"
              /\ remaining' = remaining \ {f}
              /\ ExpectedOutcome(f) = "error" =>
                    /\ errors' = errors + 1
                    /\ processed' = processed /\ skipped' = skipped
                    /\ workflows' = workflows
                    /\ workflows_fts' = workflows_fts
                    /\ nextId' = nextId
              /\ ExpectedOutcome(f) = "skipped" =>
                    /\ skipped' = skipped + 1
                    /\ processed' = processed /\ errors' = errors
              /\ ExpectedOutcome(f) = "processed" =>
                    /\ processed' = processed + 1
                    /\ skipped' = skipped /\ errors' = errors
                    /\ \E r \in workflows' :
                          r.filename = f /\ r.file_hash = getFileHash(corpus[f])
        /\ (pc = "indexing" /\ pc' = "idle") => remaining = {} ]_vars

\* C5 witness: a run that counted a malformed file and upserted the other
C5_Witness ==
    /\ pc = "indexing" /\ remaining = {}
    /\ total = 2 /\ errors = 1 /\ processed = 1
    /\ \E f \in Filenames : corpus[f] # 0 /\ ~DocCatalog[corpus[f]].wellFormed

\* the thresholds of the data model
ComplexityOf(n) ==
    CASE n <= 5            -> "low"
      [] n >= 6 /\ n <= 15 -> "medium"
      [] n > 15            -> "high"

\* the number of node entries of a document, 0 without a nodes field
NodeCountOf(doc) == IF doc.hasNodes THEN Len(doc.nodes) ELSE 0

\* the analyzers returned an analysis (not null, not an error response)
DbAnalysed == dbOut.ran /\ ~dbOut.out.isNull
McpAnalysed == mcpOut.ran /\ ~mcpOut.out.isError

\* C6: in the indexing analyzer and in direct analysis alike, node_count is
\* the number of nodes (0 without a nodes field) and complexity is low up
\* to 5 nodes, medium from 6 to 15, high above 15.
C6_ComplexityFromNodeCount ==
    /\ DbAnalysed =>
          /\ dbOut.out.node_count = NodeCountOf(input)
          /\ dbOut.out.complexity = ComplexityOf(dbOut.out.node_count)
    /\ McpAnalysed =>
          /\ mcpOut.out.node_count = NodeCountOf(input)
          /\ mcpOut.out.complexity = ComplexityOf(mcpOut.out.node_count)

\* C6 witness: both analyzers have classified a document of 16 nodes as high
C6_Witness ==
    /\ DbAnalysed /\ McpAnalysed
    /\ dbOut.out.node_count = 16 /\ dbOut.out.complexity = "high"
    /\ mcpOut.out.node_count = 16 /\ mcpOut.out.complexity = "high"

\* the trigger category of one node type, "None" when it matches nothing
TriggerClass(nodeType) ==
    IF Includes(nodeType, "webhook") THEN "Webhook"
    ELSE IF Includes(nodeType, "cron") \/ Includes(nodeType, "schedule") THEN "Scheduled"
    ELSE IF Includes(nodeType, "trigger") THEN "Triggered"
    ELSE "None"

\* the category of the first node that matches, Manual when none does
RECURSIVE FirstMatch(_)
FirstMatch(nodes) ==
    IF Len(nodes) = 0 THEN "Manual"
    ELSE IF TriggerClass(NodeTypeOf(nodes[1])) # "None"
         THEN TriggerClass(NodeTypeOf(nodes[1]))
         ELSE FirstMatch(Tail(nodes))

\* C7: for every node array, the trigger_type of an analysis is the category
\* of the first node, in array order, whose type matches (webhook, else cron
\* or schedule, else trigger), and Manual exactly when no node matches.
C7_FirstMatchingNodeWins ==
    input.hasNodes =>
        /\ DbAnalysed => dbOut.out.trigger_type = FirstMatch(input.nodes)
        /\ McpAnalysed => mcpOut.out.trigger_type = FirstMatch(input.nodes)

\* the structural and control node kinds, in lower case
StructuralKinds == {"start", "noop", "code", "set", "if", "merge", "switch"}

NoStructuralNoDuplicate(integrations) ==
    /\ \A i \in 1..Len(integrations) : ToLower(integrations[i]) \notin StructuralKinds
    /\ \A i, j \in 1..Len(integrations) : integrations[i] = integrations[j] => i = j

\* C8: the integrations of an analysis name no structural or control node
\* kind and hold no entry twice.
C8_NoStructuralIntegrations ==
    /\ DbAnalysed => NoStructuralNoDuplicate(dbOut.out.integrations)
    /\ McpAnalysed => NoStructuralNoDuplicate(mcpOut.out.integrations)

\* how many nodes of the array satisfy: type includes sub
RECURSIVE CountIncluding(_, _)
CountIncluding(nodes, sub) ==
    IF Len(nodes) = 0 THEN 0
    ELSE (IF Includes(NodeTypeOf(nodes[1]), sub) THEN 1 ELSE 0)
             + CountIncluding(Tail(nodes), sub)

\* a document of exactly three webhook nodes and one Slack node
ThreeWebhooksOneSlack ==
    /\ input.wellFormed /\ input.hasNodes /\ Len(input.nodes) = 4
    /\ CountIncluding(input.nodes, "webhook") = 3
    /\ CountIncluding(input.nodes, ".slack") = 1

\* C9: analysing a document of three webhook nodes and one Slack node gives
\* trigger_type Webhook, integrations {Slack}, node_count 4, complexity low.
C9_ThreeWebhooksOneSlack ==
    ThreeWebhooksOneSlack =>
        /\ DbAnalysed =>
              /\ dbOut.out.trigger_type = "Webhook"
              /\ dbOut.out.integrations = <<"Slack">>
              /\ dbOut.out.node_count = 4
              /\ dbOut.out.complexity = "low"
        /\ McpAnalysed =>
              /\ mcpOut.out.trigger_type = "Webhook"
              /\ mcpOut.out.integrations = <<"Slack">>
              /\ mcpOut.out.node_count = 4
              /\ mcpOut.out.complexity = "low"

\* the entries of an array, as a set
Range(seq) == {seq[i] : i \in 1..Len(seq)}

\* C10: the integrations, trigger_type and complexity of a record fetched by
\* key are those direct analysis gives for the bytes the record was indexed
\* from.
C10_FetchedEqualsDirectAnalysis ==
    \A f \in Filenames :
        getWorkflowDetail(f).found =>
            LET detail == getWorkflowDetail(f)
                direct == mcpAnalyzeWorkflow(DocCatalog[DocOfHash(detail.row.file_hash)])
            IN  ~direct.isError =>
                    /\ Range(detail.integrations) = Range(direct.integrations)
                    /\ detail.row.trigger_type = direct.trigger_type
                    /\ detail.row.complexity = direct.complexity

(***************************************************************************)
(* Full-text queries.  buildFTSQuery (one in database.js, one in           *)
(* mcp-server.js) turns the caller's text into an FTS5 query string, and   *)
(* workflows_fts MATCH evaluates that string against the shadow rows.      *)
(* The evaluator below reads the FTS5 queries the two builders emit:       *)
(* phrases in double quotes and bare words, each with an optional trailing *)
(* star, combined by AND (also implicit) and OR.  Any other FTS5 syntax    *)
(* is reported as an error of the statement.                               *)
(***************************************************************************)
\* the characters of \w
WordChars == LowerLetters \o UpperLetters \o "0123456789_"

\* String.prototype.replace(pat, rep) for a string pat: first occurrence only
ReplaceFirst(s, pat, rep) ==
    IF ~Includes(s, pat) THEN s
    ELSE LET i == CHOOSE k \in 1..(Len(s) + 1 - Len(pat)) :
                      /\ SubSeq(s, k, k + Len(pat) - 1) = pat
                      /\ \A j \in 1..(k - 1) : SubSeq(s, j, j + Len(pat) - 1) # pat
         IN  SubSeq(s, 1, i - 1) \o rep \o SubSeq(s, i + Len(pat), Len(s))

\* String.prototype.split(/\s+/).filter(term => term.length > 0)
RECURSIVE SplitSpacesFrom(_, _)
SplitSpacesFrom(s, cur) ==
    IF s = "" THEN (IF cur = "" THEN <<>> ELSE <<cur>>)
    ELSE IF SubSeq(s, 1, 1) = " "
         THEN (IF cur = "" THEN <<>> ELSE <<cur>>) \o SplitSpacesFrom(SubSeq(s, 2, Len(s)), "")
         ELSE SplitSpacesFrom(SubSeq(s, 2, Len(s)), cur \o SubSeq(s, 1, 1))

SplitSpaces(s) == SplitSpacesFrom(s, "")

\* database.js 323-324: replace(/[^\w\s"'-]/g, ' ')
RECURSIVE CleanSpecial(_)
CleanSpecial(s) ==
    IF s = "" THEN ""
    ELSE (IF Includes(WordChars \o " \"'-", SubSeq(s, 1, 1)) THEN SubSeq(s, 1, 1) ELSE " ")
            \o CleanSpecial(SubSeq(s, 2, Len(s)))

\* database.js 331, 334: quotedRegex.exec(s) with quotedRegex.lastIndex =
\* lastIndex; the positions (from 1) of the quotes of the match, or none
QuotedExec(s, lastIndex) ==
    LET starts == { i \in (lastIndex + 1)..(Len(s) - 2) :
                      /\ SubSeq(s, i, i) = "\""
                      /\ SubSeq(s, i + 1, i + 1) # "\""
                      /\ \E j \in (i + 2)..Len(s) : SubSeq(s, j, j) = "\"" }
    IN  IF starts = {} THEN [found |-> FALSE]
        ELSE LET i == CHOOSE k \in starts : \A m \in starts : k <= m
                 j == CHOOSE k \in (i + 2)..Len(s) :
                          /\ SubSeq(s, k, k) = "\""
                          /\ \A m \in (i + 1)..(k - 1) : SubSeq(s, m, m) # "\""
             IN  [found |-> TRUE, from |-> i, to |-> j]

\* database.js 334-337: the loop over the quoted phrases; the regular
\* expression keeps its lastIndex while cleanQuery is replaced
RECURSIVE QuotedLoop(_, _, _)
QuotedLoop(cleanQuery, lastIndex, phrases) ==
    LET match == QuotedExec(cleanQuery, lastIndex)
    IN  IF ~match.found THEN [cleanQuery |-> cleanQuery, phrases |-> phrases]
        ELSE LET whole == SubSeq(cleanQuery, match.from, match.to)
             IN  QuotedLoop(ReplaceFirst(cleanQuery, whole, " "), match.to,
                            Append(phrases, whole))

\* database.js 321-358
dbBuildFTSQuery(query) ==
    LET cleanQuery == Trim(CleanSpecial(query))
    IN  IF cleanQuery = "" THEN "*"
        ELSE LET looped   == QuotedLoop(cleanQuery, 0, <<>>)
                 split    == SplitSpaces(looped.cleanQuery)
                 terms    == [i \in 1..Len(split) |->
                                 IF Len(split[i]) >= 2 THEN split[i] \o "*" ELSE split[i]]
                 allTerms == looped.phrases \o terms
             IN  IF Len(allTerms) = 0 THEN "*" ELSE Join(allTerms, " AND ")

\* mcp-server.js 670: replace(/['"]/g, '')
RECURSIVE RemoveQuotes(_)
RemoveQuotes(s) ==
    IF s = "" THEN ""
    ELSE (IF Includes("'\"", SubSeq(s, 1, 1)) THEN "" ELSE SubSeq(s, 1, 1))
            \o RemoveQuotes(SubSeq(s, 2, Len(s)))

\* mcp-server.js 677, 680: `"${term}"* OR ${term}*`
ExactOrPrefix(term) == "\"" \o term \o "\"* OR " \o term \o "*"

\* mcp-server.js 667-684
mcpBuildFTSQuery(query) ==
    LET ftsQuery == Trim(RemoveQuotes(query))
    IN  IF Includes(ftsQuery, " ")
        THEN LET terms == SplitSpaces(ftsQuery)
             IN  Join([i \in 1..Len(terms) |-> ExactOrPrefix(terms[i])], " OR ")
        ELSE ExactOrPrefix(ftsQuery)

\* the tokens of text s in their order (unicode61: runs of letters and
\* digits, in lower case)
TokenSeq(s) ==
    LET starts == TokenStarts(s)
    IN  [k \in 1..Cardinality(starts) |->
            TokenAt(s, CHOOSE i \in starts : Cardinality({j \in starts : j < i}) = k - 1)]

\* the lexemes of an FTS5 query string: strings, bare words, stars and the
\* operators AND and OR; "bad" stands for a character or an operator the
\* evaluator does not read, and for a string that is not closed
RECURSIVE FtsLex(_)
FtsLex(s) ==
    IF s = "" THEN <<>>
    ELSE LET c == SubSeq(s, 1, 1)
         IN  IF c = " " THEN FtsLex(SubSeq(s, 2, Len(s)))
             ELSE IF c = "*" THEN <<[k |-> "star", v |-> ""]>> \o FtsLex(SubSeq(s, 2, Len(s)))
             ELSE IF c = "\"" THEN
                 IF ~Includes(SubSeq(s, 2, Len(s)), "\"") THEN <<[k |-> "bad", v |-> ""]>>
                 ELSE LET j == CHOOSE n \in 2..Len(s) :
                                  /\ SubSeq(s, n, n) = "\""
                                  /\ \A m \in 2..(n - 1) : SubSeq(s, m, m) # "\""
                      IN  <<[k |-> "str", v |-> SubSeq(s, 2, j - 1)]>>
                              \o FtsLex(SubSeq(s, j + 1, Len(s)))
             ELSE IF Includes(WordChars, c) THEN
                 LET n == CHOOSE m \in 1..Len(s) :
                              /\ \A i \in 1..m : Includes(WordChars, SubSeq(s, i, i))
                              /\ m = Len(s) \/ ~Includes(WordChars, SubSeq(s, m + 1, m + 1))
                     w == SubSeq(s, 1, n)
                 IN  <<[k |-> IF w = "AND" THEN "and"
                              ELSE IF w = "OR" THEN "or"
                              ELSE IF w = "NOT" \/ w = "NEAR" THEN "bad"
                              ELSE "word",
                        v |-> w]>> \o FtsLex(SubSeq(s, n + 1, Len(s)))
             ELSE <<[k |-> "bad", v |-> ""]>>

FtsSyntaxError == [ok |-> FALSE]

\* the query as a disjunction of conjunctions of phrases [tokens, prefix];
\* lex is read from position i, cur is the conjunction under construction,
\* done the finished ones, and needPhrase says an operand must come next
RECURSIVE FtsParseFrom(_, _, _, _, _)
FtsParseFrom(lex, i, cur, done, needPhrase) ==
    IF i > Len(lex)
    THEN (IF needPhrase THEN FtsSyntaxError
          ELSE [ok |-> TRUE, disjuncts |-> Append(done, cur)])
    ELSE IF lex[i].k \in {"str", "word"}
    THEN LET star == i + 1 <= Len(lex) /\ lex[i + 1].k = "star"
             phrase == [tokens |-> TokenSeq(lex[i].v), prefix |-> star]
         IN  FtsParseFrom(lex, IF star THEN i + 2 ELSE i + 1,
                          Append(cur, phrase), done, FALSE)
    ELSE IF lex[i].k = "and" /\ ~needPhrase
    THEN FtsParseFrom(lex, i + 1, cur, done, TRUE)
    ELSE IF lex[i].k = "or" /\ ~needPhrase
    THEN FtsParseFrom(lex, i + 1, <<>>, Append(done, cur), TRUE)
    ELSE FtsSyntaxError

FtsParse(ftsQuery) == FtsParseFrom(FtsLex(ftsQuery), 1, <<>>, <<>>, TRUE)

\* a phrase matches a column when its tokens are consecutive tokens of the
\* column, the last one as a prefix if the phrase carries a star
PhraseInColumn(phrase, column) ==
    LET toks == TokenSeq(column)
        n    == Len(phrase.tokens)
    IN  /\ n > 0
        /\ \E at \in 1..(Len(toks) + 1 - n) :
              \A k \in 1..n :
                  IF k = n /\ phrase.prefix
                  THEN StartsWith(toks[at + k - 1], phrase.tokens[k])
                  ELSE toks[at + k - 1] = phrase.tokens[k]

\* database.js 68-75: the five columns of a row of workflows_fts
FtsColumns(r) == {r.filename, r.name, r.description, r.integrations, r.tags}

PhraseInRow(phrase, r) == \E column \in FtsColumns(r) : PhraseInColumn(phrase, column)

\* workflows_fts MATCH ftsQuery on shadow row r, for a query that parses
FtsMatches(r, parsed) ==
    \E d \in 1..Len(parsed.disjuncts) :
        \A c \in 1..Len(parsed.disjuncts[d]) : PhraseInRow(parsed.disjuncts[d][c], r)

(***************************************************************************)
(* SQL expressions of the two searchWorkflows.                             *)
(***************************************************************************)
\* printable ASCII characters in their order: the BINARY collation
Ascii ==
    " !\"#$%&'(" \o ")*+,-./0123456789:;<=>?@" \o UpperLetters \o "[]^_"
        \o LowerLetters \o "{|}~"

CharCode(c) == CHOOSE i \in 1..Len(Ascii) : SubSeq(Ascii, i, i) = c

\* a < b for two TEXT values
RECURSIVE StrLess(_, _)
StrLess(a, b) ==
    IF b = "" THEN FALSE
    ELSE IF a = "" THEN TRUE
    ELSE IF SubSeq(a, 1, 1) = SubSeq(b, 1, 1)
         THEN StrLess(SubSeq(a, 2, Len(a)), SubSeq(b, 2, Len(b)))
         ELSE CharCode(SubSeq(a, 1, 1)) < CharCode(SubSeq(b, 1, 1))

\* text LIKE pattern: % is any run of characters, _ any one character, and
\* letters match without regard to case
RECURSIVE Like(_, _)
Like(text, pattern) ==
    IF pattern = "" THEN text = ""
    ELSE LET p == SubSeq(pattern, 1, 1)
             rest == SubSeq(pattern, 2, Len(pattern))
         IN  IF p = "%"
             THEN \E k \in 0..Len(text) : Like(SubSeq(text, k + 1, Len(text)), rest)
             ELSE /\ text # ""
                  /\ p = "_" \/ ToLowerChar(p) = ToLowerChar(SubSeq(text, 1, 1))
                  /\ Like(SubSeq(text, 2, Len(text)), rest)

\* a JavaScript number, undefined, and NaN
Number(n) == [defined |-> TRUE, n |-> n]
Undefined == [defined |-> FALSE, nan |-> FALSE]
NaN == [defined |-> FALSE, nan |-> TRUE]

\* Math.ceil(total / limit) for a count that may be undefined
CeilDiv(count, limit) ==
    IF count.defined THEN Number((count.n + limit - 1) \div limit) ELSE NaN

\* the enumerations of a finite set
Enumerations(S) ==
    { f \in [1..Cardinality(S) -> S] : \A i, j \in 1..Cardinality(S) : f[i] = f[j] => i = j }

\* mcp-server.js 761-766: ORDER BY puts a before b
Precedes(sort, a, b) ==
    IF sort = "node_count" THEN a.w.node_count > b.w.node_count
    ELSE IF sort = "analyzed_at" THEN a.w.analyzed_at > b.w.analyzed_at
    ELSE StrLess(a.w.name, b.w.name)

\* ORDER BY with the one sort term of the statement: the statement names no
\* second term, and SQL leaves the order of rows that tie on the first to
\* the engine, so every order of the ties is a possible result
OrderBy(rows, sort) ==
    { f \in Enumerations(rows) :
        \A i, j \in 1..Cardinality(rows) : i < j => ~Precedes(sort, f[j], f[i]) }

\* LIMIT limit OFFSET offset
\* (SQLite: a negative LIMIT is no limit, a negative OFFSET is 0)
LimitOffset(ordered, limit, offset) ==
    LET skip == IF offset < 0 THEN 0 ELSE offset
    IN  SubSeq(ordered, skip + 1,
               IF limit >= 0 /\ skip + limit < Len(ordered)
               THEN skip + limit ELSE Len(ordered))

(***************************************************************************)
(* The stores a search can meet: what upserts of the documents the         *)
(* pipeline can index leave behind.                                        *)
(***************************************************************************)
\* most upserts behind a store that is searched
MaxUpserts == 2

\* the documents indexWorkflows upserts (analysis and binding succeed)
IndexableDocs ==
    { d \in DocIds : \A f \in Filenames :
          ~AnalysisOf[f, d].isNull /\ Bindable(AnalysisOf[f, d]) }

EmptyStore == [workflows |-> {}, workflows_fts |-> {}, nextId |-> 1, now |-> 0]

\* the stores after at most n upserts, the clock never going back
RECURSIVE StoresAfter(_)
StoresAfter(n) ==
    IF n = 0 THEN {EmptyStore}
    ELSE LET before == StoresAfter(n - 1)
         IN  before \cup
             { Upserted([s EXCEPT !.now = t], AnalysisOf[f, d]) :
                 <<s, f, d, t>> \in
                     { x \in before \X Filenames \X IndexableDocs \X (0..MaxClock) :
                         x[1].now <= x[4] } }

SearchableStores == StoresAfter(MaxUpserts)

(***************************************************************************)
(* The two search operations: database.js searchWorkflows behind           *)
(* GET /api/workflows, and the tool search_workflows of mcp-server.js.     *)
(* Both read the same two tables.                                          *)
(***************************************************************************)
\* the free texts searched for
QueryTexts == {"", "slack", "slack cron", "zzz", "\"to slack\""}

\* the five columns of a shadow row, without its rowid (database.js 68-75)
ShadowContent(r) ==
    [ filename |-> r.filename, name |-> r.name, description |-> r.description,
      integrations |-> r.integrations, tags |-> r.tags ]

\* the contents a shadow row can have
ShadowContents ==
    { ShadowContent(NewRow(AnalysisOf[f, d], 0, 0)) : f \in Filenames, d \in IndexableDocs }

\* database.js 371: buildFTSQuery(query.trim()), as FTS5 reads it
dbParsed == [q \in QueryTexts |-> FtsParse(dbBuildFTSQuery(Trim(q)))]

\* mcp-server.js 712: buildFTSQuery(query), as FTS5 reads it
mcpParsed == [q \in QueryTexts |-> FtsParse(mcpBuildFTSQuery(q))]

\* database.js 375: workflows_fts MATCH ? for each content and text
dbMatch ==
    [c \in ShadowContents, q \in QueryTexts |->
        dbParsed[q].ok /\ FtsMatches(c, dbParsed[q])]

\* mcp-server.js 717: workflows_fts MATCH ? for each content and text
mcpMatch ==
    [c \in ShadowContents, q \in QueryTexts |->
        mcpParsed[q].ok /\ FtsMatches(c, mcpParsed[q])]

\* JSON.parse of the two JSON columns, for each text a column can hold
ParsedColumn ==
    [t \in {c.integrations : c \in ShadowContents} \cup {c.tags : c \in ShadowContents}
        |-> JsonParse(t)]

SearchThrew == [threw |-> TRUE]

\* database.js 360-417: the results searchWorkflows can return
dbSearchWorkflows(query, triggerFilter, complexityFilter, activeOnly, limit, offset) ==
    LET text  == Trim(query) # ""
        \* 372-376: one row per record and matching shadow row of its file name;
        \* 380: or every record
        found == IF text
                 THEN { [w |-> p[1], shadow |-> p[2].rowid] : p \in
                          { x \in workflows \X workflows_fts :
                              /\ x[1].filename = x[2].filename
                              /\ dbMatch[ShadowContent(x[2]), query] } }
                 ELSE { [w |-> x, shadow |-> 0] : x \in workflows }
        \* 384-396
        rows  == { x \in found :
                     /\ triggerFilter # "all" => x.w.trigger_type = triggerFilter
                     /\ complexityFilter # "all" => x.w.complexity = complexityFilter
                     /\ activeOnly => x.w.active = 1 }
    IN  IF ~initialized THEN {SearchThrew}                      \* 362-364
        ELSE IF text /\ ~dbParsed[query].ok THEN {SearchThrew}   \* the statement fails
        \* 399-400: /SELECT \*/ does not occur in "SELECT w.* FROM", so with a
        \* text the count statement is the search statement itself: get()
        \* returns its first row, which has no column total, or undefined,
        \* which cannot be destructured
        ELSE IF text /\ rows = {} THEN {SearchThrew}
        ELSE { [ threw     |-> FALSE,
                 total     |-> IF text THEN Undefined ELSE Number(Cardinality(rows)),
                 workflows |->                                   \* 403-414
                     LET page == LimitOffset(ordered, limit, offset)
                     IN  [i \in 1..Len(page) |->
                            [page[i].w EXCEPT !.integrations = ParsedColumn[@],
                                              !.tags = ParsedColumn[@]]] ]
               : ordered \in OrderBy(rows, "name") }

\* http-server.js 332-333: the bounds of per_page
MinPerPage == 1
MaxPerPage == 100

Max2(a, b) == IF a >= b THEN a ELSE b
Min2(a, b) == IF a <= b THEN a ELSE b

\* http-server.js 322-356: GET /api/workflows
GetApiWorkflows(args) ==
    LET pageNum == Max2(1, args.page)
        perPage == Min2(MaxPerPage, Max2(MinPerPage, args.per_page))
        offset  == (pageNum - 1) * perPage
    IN  { IF r.threw THEN [status |-> 500]
          ELSE [ status    |-> 200,
                 workflows |-> r.workflows,
                 total     |-> r.total,
                 page      |-> pageNum,
                 per_page  |-> perPage,
                 pages     |-> CeilDiv(r.total, perPage) ]
          : r \in dbSearchWorkflows(args.q, args.trigger, args.complexity,
                                    args.active_only, perPage, offset) }

\* the category map file search_categories.json: category -> file names
CategoryMap == [sales |-> <<OrderFile>>, empty |-> <<>>]

\* mcp-server.js 1703-1712
loadCategories == CategoryMap

\* mcp-server.js 783-792: the fields of a row that the reply carries
ReplyDocument(w) ==
    [ filename |-> w.filename, name |-> w.name, description |-> w.description,
      trigger_type |-> w.trigger_type, node_count |-> w.node_count,
      integrations |-> ParsedColumn[w.integrations], active |-> (w.active # 0),
      complexity |-> w.complexity ]

\* mcp-server.js 686-801: the replies search_workflows can give; an absent
\* argument is "" (category, trigger, complexity) or FALSE (active_only)
mcpSearchWorkflows(args) ==
    LET text  == Trim(args.query) # ""
        \* 713-718: SELECT DISTINCT w.* over the join; 722: or every record
        found == IF text
                 THEN { x \in workflows :
                          \E r \in workflows_fts :
                              /\ x.filename = r.filename
                              /\ mcpMatch[ShadowContent(r), args.query] }
                 ELSE workflows
        \* 727-728
        categoryWorkflows ==
            IF args.category \in DOMAIN loadCategories
            THEN loadCategories[args.category] ELSE <<>>
        rows  == { [w |-> x, shadow |-> 0] : x \in
                   { x \in found :
                       \* 726-733
                       /\ (args.category # "" /\ Len(categoryWorkflows) > 0)
                             => \E i \in 1..Len(categoryWorkflows) :
                                    x.filename = categoryWorkflows[i]
                       \* 735-747
                       /\ args.trigger # "" => x.trigger_type = args.trigger
                       /\ args.complexity # "" => x.complexity = args.complexity
                       /\ args.active_only => x.active = 1
                       \* 749-754
                       /\ \A i \in 1..Len(args.integrations) :
                              Like(x.integrations, "%\"" \o args.integrations[i] \o "\"%") } }
    IN  IF text /\ ~mcpParsed[args.query].ok THEN {[isError |-> TRUE]}
        \* 757-758: /SELECT.*?FROM/ does not match "SELECT DISTINCT w.*" and
        \* "FROM" on two lines, so with a text the count statement is the
        \* search statement itself: get() returns a row without column total,
        \* or undefined, whose destructuring throws into the catch of 796
        ELSE IF text /\ rows = {} THEN {[isError |-> TRUE]}
        ELSE { LET counted == IF text THEN Undefined ELSE Number(Cardinality(rows))
                   page    == LimitOffset(ordered, args.limit, args.offset)
               IN  [ isError   |-> FALSE,
                     total     |-> counted,
                     page      |-> (args.offset \div args.limit) + 1,
                     pages     |-> CeilDiv(counted, args.limit),
                     workflows |-> [i \in 1..Len(page) |-> ReplyDocument(page[i].w)] ]
               : ordered \in OrderBy(rows, args.sort) }

\* the pages and page sizes a client asks for
MaxPage == 2
MaxLimit == 2

\* the filters of a request: trigger, complexity, active only -- none, each
\* one alone, and the three together
FilterChoices ==
    { <<"", "", FALSE>>, <<"Manual", "", FALSE>>, <<"", "low", FALSE>>,
      <<"", "", TRUE>>, <<"Manual", "low", TRUE>> }

\* database.js 384, 389: the value of a filter that is not asked for
AllIfNone(v) == IF v = "" THEN "all" ELSE v

\* GET /api/workflows requests: paging through a result, filtering, texts
HttpCalls ==
    { [entry |-> "http", q |-> q, trigger |-> "all", complexity |-> "all",
       active_only |-> FALSE, page |-> p, per_page |-> n]
        : q \in {"", "slack"}, p \in 1..MaxPage, n \in 1..MaxLimit }
    \cup
    { [entry |-> "http", q |-> q, trigger |-> AllIfNone(f[1]),
       complexity |-> AllIfNone(f[2]), active_only |-> f[3],
       page |-> 1, per_page |-> MaxLimit]
        : q \in {"", "slack cron"}, f \in FilterChoices }
    \cup
    { [entry |-> "http", q |-> q, trigger |-> "all", complexity |-> "all",
       active_only |-> FALSE, page |-> 1, per_page |-> MaxLimit]
        : q \in QueryTexts }

\* an argument list of search_workflows with the defaults of 692-700
McpArgs ==
    [entry |-> "mcp", query |-> "", category |-> "", trigger |-> "",
     complexity |-> "", active_only |-> FALSE, integrations |-> <<>>,
     limit |-> MaxLimit, offset |-> 0, sort |-> "name"]

\* search_workflows requests: paging in each sort order, filtering, texts,
\* categories and integrations
McpCalls ==
    { [McpArgs EXCEPT !.sort = s, !.limit = n, !.offset = o]
        : s \in {"name", "node_count", "analyzed_at"},
          n \in 1..MaxLimit, o \in 0..(MaxPage - 1) }
    \cup
    { [McpArgs EXCEPT !.query = "slack", !.limit = n, !.offset = o]
        : n \in 1..MaxLimit, o \in 0..(MaxPage - 1) }
    \cup
    { [McpArgs EXCEPT !.query = q, !.trigger = f[1], !.complexity = f[2],
                      !.active_only = f[3]]
        : q \in {"", "slack cron"}, f \in FilterChoices }
    \cup
    { [McpArgs EXCEPT !.query = q] : q \in QueryTexts }
    \cup
    { [McpArgs EXCEPT !.category = c] : c \in {"sales", "empty", "unknown"} }
    \cup
    { [McpArgs EXCEPT !.integrations = i]
        : i \in {<<"Slack">>, <<"slack">>, <<"%">>, <<"Slack", "Set">>, <<"Slack", "Cron">>} }

\* the offset and the page size of a request
OffsetOf(c) ==
    IF c.entry = "http"
    THEN (Max2(1, c.page) - 1) * Min2(MaxPerPage, Max2(MinPerPage, c.per_page))
    ELSE c.offset
LimitOf(c) ==
    IF c.entry = "http" THEN Min2(MaxPerPage, Max2(MinPerPage, c.per_page)) ELSE c.limit

\* the request c, asked for its first page
FirstPageOf(c) ==
    IF c.entry = "http" THEN [c EXCEPT !.page = 1] ELSE [c EXCEPT !.offset = 0]

\* whether reply r carries documents
Answered(r) == IF "status" \in DOMAIN r THEN r.status = 200 ELSE ~r.isError

\* the file names of the documents of reply r, in their order
DocumentNames(r) == [i \in 1..Len(r.workflows) |-> r.workflows[i].filename]

\* the walk of a client after request c got reply r: the client fetches the
\* pages of one request one after the other, from offset 0 on
WalkAfter(c, r) ==
    IF ~Answered(r) THEN NoWalk
    ELSE IF OffsetOf(c) = 0
    THEN [ entry |-> c.entry, first |-> c, fetched |-> 1, total |-> r.total,
           pages |-> r.pages, names |-> DocumentNames(r),
           lastEmpty |-> (Len(r.workflows) = 0) ]
    ELSE IF /\ walk.entry = c.entry
            /\ walk.first = FirstPageOf(c)
            /\ OffsetOf(c) = walk.fetched * LimitOf(c)
    THEN [ walk EXCEPT !.fetched = @ + 1,
                       !.names = @ \o DocumentNames(r),
                       !.lastEmpty = (Len(r.workflows) = 0) ]
    ELSE NoWalk

\* what a request leaves alone: the store, the corpus, the pipeline, the
\* analyzers
SearchFrame ==
    UNCHANGED <<storeVars, now, corpus, runVars, cleanRuns, analyzeVars, statsVars,
                hostVars>>

\* a request to GET /api/workflows
HttpSearch(c) ==
    /\ \E r \in GetApiWorkflows(c) :
          /\ reply' = r
          /\ walk' = WalkAfter(c, r)
    /\ prevReply' = IF call = c THEN reply ELSE NotRun
    /\ call' = c
    /\ SearchFrame

\* a call of the tool search_workflows
McpSearch(c) ==
    /\ \E r \in mcpSearchWorkflows(c) :
          /\ reply' = r
          /\ walk' = WalkAfter(c, r)
    /\ prevReply' = IF call = c THEN reply ELSE NotRun
    /\ call' = c
    /\ SearchFrame

\* the servers are started on a store that indexing runs have filled
InitQuery ==
    /\ initialized = TRUE
    /\ \E s \in SearchableStores :
          /\ workflows = s.workflows
          /\ workflows_fts = s.workflows_fts
          /\ nextId = s.nextId
          /\ now = s.now
    /\ corpus = [f \in Filenames |-> 0]
    /\ pc = "idle"
    /\ forceReindex = FALSE
    /\ remaining = {}
    /\ processed = 0 /\ skipped = 0 /\ errors = 0 /\ total = 0
    /\ cleanRuns = 0
    /\ input = EmptyDoc
    /\ dbOut = NotRun
    /\ mcpOut = NotRun
    /\ ServersAtRest

NextQuery ==
    \/ \E c \in HttpCalls : HttpSearch(c)
    \/ \E c \in McpCalls : McpSearch(c)

SpecQuery == InitQuery /\ [][NextQuery]_vars

(***************************************************************************)
(* Properties of the search operations.                                    *)
(***************************************************************************)
\* the free text of request c
TextOf(c) == IF c.entry = "http" THEN c.q ELSE c.query

\* request c carries a free text
HasText(c) == Trim(TextOf(c)) # ""

\* every term of text q (quoted phrases as phrases, the other terms of two or
\* more characters as prefixes) matches the fields of record w
EveryTermMatches(q, w) ==
    /\ dbParsed[q].ok
    /\ Len(dbParsed[q].disjuncts) = 1
    /\ \A i \in 1..Len(dbParsed[q].disjuncts[1]) :
          PhraseInRow(dbParsed[q].disjuncts[1][i], ShadowContent(w))

\* the members of category name in the category map: none for a missing one
CategoryMembers(name) ==
    IF name \in DOMAIN CategoryMap THEN Range(CategoryMap[name]) ELSE {}

\* record w satisfies every filter request c supplies
FiltersHold(c, w) ==
    IF c.entry = "http"
    THEN /\ c.trigger # "all" => w.trigger_type = c.trigger
         /\ c.complexity # "all" => w.complexity = c.complexity
         /\ c.active_only => w.active = 1
    ELSE /\ c.trigger # "" => w.trigger_type = c.trigger
         /\ c.complexity # "" => w.complexity = c.complexity
         /\ c.active_only => w.active = 1
         /\ \A i \in 1..Len(c.integrations) :
                c.integrations[i] \in Range(JsonParse(w.integrations))
         /\ c.category # "" => w.filename \in CategoryMembers(c.category)

\* the stored records request c asks for, whatever its limit and offset
Matching(c) ==
    { w \in workflows : /\ HasText(c) => EveryTermMatches(TextOf(c), w)
                        /\ FiltersHold(c, w) }

\* request c filters by trigger, complexity and activity only, the filters
\* both entry points have
CommonFiltersOnly(c) ==
    c.entry = "mcp" => c.category = "" /\ c.integrations = <<>>

Asked == call # NoCall

\* C11: for every Query that is answered, with or without free text, the
\* returned total is the number of distinct records that match the text and
\* all filters, whatever the limit and offset, and pages is
\* ceil(total / limit).
C11_TotalCountsMatches ==
    (Asked /\ CommonFiltersOnly(call) /\ Answered(reply)) =>
        /\ reply.total = Number(Cardinality(Matching(call)))
        /\ reply.pages = CeilDiv(Number(Cardinality(Matching(call))), LimitOf(call))

\* the client has fetched the pages at offsets 0, L, 2L, ... up to the last
\* page: as many as the first reply announced, or until a page came back
\* empty when the first reply announced no number
WalkDone ==
    /\ walk # NoWalk
    /\ IF walk.pages.defined THEN walk.fetched >= walk.pages.n ELSE walk.lastEmpty

NoDuplicates(seq) == \A i, j \in 1..Len(seq) : seq[i] = seq[j] => i = j

\* C12: against an unchanged store, for fixed filters, sort key and limit L,
\* the pages at offsets 0, L, 2L, ... up to the last page hold, together,
\* the file name of every matching record, each one once: none twice, none
\* missing.
C12_PagesCoverMatchesOnce ==
    (WalkDone /\ CommonFiltersOnly(walk.first)) =>
        /\ NoDuplicates(walk.names)
        /\ Range(walk.names) = {w.filename : w \in Matching(walk.first)}

\* the replies request c can get from the store as it is
RepliesTo(c) ==
    IF c.entry = "http" THEN GetApiWorkflows(c) ELSE mcpSearchWorkflows(c)

\* C13: a Query whose offset is at or beyond the number of matching records
\* is answered with an empty document list and with the total the same Query
\* gets at offset 0, with a free text as well as without.
C13_OffsetBeyondMatchesIsEmpty ==
    (/\ Asked /\ CommonFiltersOnly(call)
     /\ OffsetOf(call) >= Cardinality(Matching(call))) =>
        /\ Answered(reply)
        /\ reply.workflows = <<>>
        /\ \A first \in RepliesTo(FirstPageOf(call)) :
              Answered(first) /\ first.total = reply.total

RecordOf(f) == CHOOSE w \in workflows : w.filename = f

\* C15: for a free text of several terms, every returned record matches every
\* term: the terms combine by AND.
C15_EveryTermOfTextMatches ==
    (/\ Asked /\ Answered(reply)
     /\ HasText(call) /\ Len(SplitSpaces(TextOf(call))) > 1) =>
        \A i \in 1..Len(reply.workflows) :
            EveryTermMatches(TextOf(call), RecordOf(reply.workflows[i].filename))

\* C16: when a Query names a category, every returned document is a member
\* of that category in the category map; an empty or missing category gives
\* no documents.
C16_CategoryRestrictsToMembers ==
    (Asked /\ call.entry = "mcp" /\ call.category # "" /\ Answered(reply)) =>
        \A i \in 1..Len(reply.workflows) :
            reply.workflows[i].filename \in CategoryMembers(call.category)

\* C17: with an empty free text, the matching records are exactly the stored
\* records that satisfy every supplied filter at once (trigger, complexity,
\* active only, every named integration in the record's integration set).
C17_FiltersAloneSelectExactly ==
    (/\ Asked /\ ~HasText(call) /\ Answered(reply)
     /\ call.entry = "mcp" => call.category = "") =>
        /\ reply.total = Number(Cardinality(Matching(call)))
        /\ \A i \in 1..Len(reply.workflows) :
              RecordOf(reply.workflows[i].filename) \in Matching(call)

(***************************************************************************)
(* Statistics: getStatistics of mcp-server.js with its five-second cache,  *)
(* and getStats of database.js behind GET /api/stats.  The long-lived MCP  *)
(* server is the process started from mcp-server.js (stdio or its own HTTP *)
(* transport); http-server.js builds a new N8NWorkflowsMCPServer for each  *)
(* POST /mcp.                                                              *)
(***************************************************************************)
\* mcp-server.js 295: cacheTimeout, in milliseconds
CacheTimeout == 5000
\* milliseconds in one second of the clock
MsPerSecond == 1000
\* mcp-server.js 906: slice(0, 20)
TopIntegrations == 20
\* last second of the clock of the statistics servers
MaxStatsClock == 5

\* Date.now()
DateNow == now * MsPerSecond

\* row[column] counted per value: SELECT column, COUNT(*) ... GROUP BY column
GroupCount(column) ==
    [v \in {w[column] : w \in workflows} |->
        Cardinality({w \in workflows : w[column] = v})]

\* SELECT SUM(node_count) as sum FROM workflows, then || 0
RECURSIVE SumNodeCount(_)
SumNodeCount(rows) ==
    IF rows = {} THEN 0
    ELSE LET w == CHOOSE x \in rows : TRUE
         IN  w.node_count + SumNodeCount(rows \ {w})

\* mcp-server.js 898-900: integrations[int] = (integrations[int] || 0) + 1,
\* the object keeping its keys in the order of their first insertion
Counted(entries, name) ==
    IF \E i \in 1..Len(entries) : entries[i].name = name
    THEN [i \in 1..Len(entries) |->
            IF entries[i].name = name
            THEN [entries[i] EXCEPT !.count = @ + 1] ELSE entries[i]]
    ELSE Append(entries, [name |-> name, count |-> 1])

RECURSIVE CountNames(_, _)
CountNames(entries, names) ==
    IF names = <<>> THEN entries
    ELSE CountNames(Counted(entries, Head(names)), Tail(names))

\* mcp-server.js 895-901: rows.forEach over the rows in the order read
RECURSIVE CountRows(_, _)
CountRows(entries, rows) ==
    IF rows = <<>> THEN entries
    ELSE CountRows(CountNames(entries, ParsedColumn[Head(rows).integrations]), Tail(rows))

\* mcp-server.js 905: sort((a, b) => b[1] - a[1]), a stable sort
RECURSIVE SortByCountDesc(_)
SortByCountDesc(entries) ==
    IF entries = <<>> THEN <<>>
    ELSE LET top == CHOOSE i \in 1..Len(entries) :
                       /\ \A j \in 1..Len(entries) : entries[j].count <= entries[i].count
                       /\ \A j \in 1..(i - 1) : entries[j].count < entries[i].count
         IN  <<entries[top]>>
                \o SortByCountDesc(SubSeq(entries, 1, top - 1)
                                     \o SubSeq(entries, top + 1, Len(entries)))

\* Math.round(a / b) for a >= 0: NaN when a = b = 0
RoundDiv(a, b) == IF b = 0 THEN NaN ELSE Number((2 * a + b) \div (2 * b))

\* mcp-server.js 869-911: the statistics of the store, rows being the rows
\* of 'SELECT integrations FROM workflows' in the order the engine gave them
mcpStatistics(rows) ==
    LET count        == Cardinality(workflows)
        active       == Cardinality({w \in workflows : w.active = 1})
        total_nodes  == SumNodeCount(workflows)
        integrations == CountRows(<<>>, rows)
        sorted       == SortByCountDesc(integrations)
    IN  [ total               |-> count,
          active              |-> active,
          inactive            |-> Cardinality({w \in workflows : w.active = 0}),
          triggers            |-> GroupCount("trigger_type"),
          complexity          |-> GroupCount("complexity"),
          total_nodes         |-> total_nodes,
          unique_integrations |-> Len(integrations),
          top_integrations    |-> SubSeq(sorted, 1, Min2(TopIntegrations, Len(sorted))),
          average_nodes_per_workflow |-> RoundDiv(total_nodes, count),
          active_percentage   |-> RoundDiv(active * 100, count) ]

\* database.js 419-465: getStats
dbGetStats ==
    [ total               |-> Cardinality(workflows),
      active              |-> Cardinality({w \in workflows : w.active = 1}),
      inactive            |-> Cardinality({w \in workflows : w.active = 0}),
      triggers            |-> GroupCount("trigger_type"),
      complexity          |-> GroupCount("complexity"),
      total_nodes         |-> SumNodeCount(workflows),
      unique_integrations |->
          Cardinality(UNION {Range(ParsedColumn[w.integrations]) : w \in workflows}),
      last_indexed        |->
          IF workflows = {} THEN Undefined
          ELSE Number(CHOOSE t \in {w.analyzed_at : w \in workflows} :
                          \A w \in workflows : w.analyzed_at <= t) ]

\* mcp-server.js 857: the cache of a server holds a snapshot young enough
CacheHit(cache, cacheTime) ==
    cache.cached /\ DateNow - cacheTime < CacheTimeout

\* what the observer notes of a statistics request: the reply, whether the
\* store was read for it, and the snapshot computed last before it with the
\* seconds gone since
StatsNote(entry, stats, readStore) ==
    [ entry |-> entry, stats |-> stats, readStore |-> readStore,
      before |-> computed,
      elapsed |-> IF computed = NotRun THEN 0 ELSE now - computed.at ]

StatsFrame ==
    UNCHANGED <<storeVars, now, corpus, runVars, cleanRuns, analyzeVars, searchVars,
                hostVars>>

\* mcp-server.js 851-865: get_statistics on the long-lived server, answered
\* from its cache
ServerStatsCached ==
    /\ CacheHit(statsCache, statsCacheTime)
    /\ statsReply' = StatsNote("server", statsCache.stats, FALSE)
    /\ UNCHANGED <<statsCache, statsCacheTime, computed>>
    /\ StatsFrame

\* mcp-server.js 867-924: get_statistics on the long-lived server, computed
ServerStatsComputed ==
    /\ ~CacheHit(statsCache, statsCacheTime)
    /\ \E rows \in Enumerations(workflows) :
          LET stats == mcpStatistics(rows)
          IN  /\ statsCache' = [cached |-> TRUE, stats |-> stats]
              /\ statsCacheTime' = DateNow
              /\ statsReply' = StatsNote("server", stats, TRUE)
              /\ computed' = [entry |-> "server", at |-> now, stats |-> stats]
    /\ StatsFrame

\* http-server.js 150-183: POST /mcp with get_statistics; the server built
\* for the request (163, mcp-server.js 289-297) starts without a snapshot,
\* and the one it computes goes away with it
PostMcpStats ==
    /\ ~CacheHit(NoStats, 0)
    /\ \E rows \in Enumerations(workflows) :
          LET stats == mcpStatistics(rows)
          IN  /\ statsReply' = StatsNote("post-mcp", stats, TRUE)
              /\ computed' = [entry |-> "post-mcp", at |-> now, stats |-> stats]
    /\ UNCHANGED <<statsCache, statsCacheTime>>
    /\ StatsFrame

\* http-server.js 311-320: GET /api/stats
GetApiStats ==
    /\ statsReply' = StatsNote("api", dbGetStats, TRUE)
    /\ UNCHANGED <<statsCache, statsCacheTime, computed>>
    /\ StatsFrame

\* database.js 278: the pipeline, a process of its own, upserts file f
\* holding document d, as a reader of the store sees it
WriterUpserts(f, d) ==
    /\ nextId <= MaxId
    /\ upsertWorkflow(AnalysisOf[f, d])
    /\ UNCHANGED <<initialized, now, corpus, runVars, cleanRuns, analyzeVars,
                   serverVars>>

\* the clock of the statistics servers
StatsTick ==
    /\ now < MaxStatsClock
    /\ now' = now + 1
    /\ UNCHANGED <<storeVars, corpus, runVars, cleanRuns, analyzeVars, serverVars>>

InitStats ==
    /\ initialized = TRUE
    /\ workflows = {}
    /\ workflows_fts = {}
    /\ nextId = 1
    /\ now = 0
    /\ corpus = [f \in Filenames |-> 0]
    /\ pc = "idle"
    /\ forceReindex = FALSE
    /\ remaining = {}
    /\ processed = 0 /\ skipped = 0 /\ errors = 0 /\ total = 0
    /\ cleanRuns = 0
    /\ input = EmptyDoc
    /\ dbOut = NotRun
    /\ mcpOut = NotRun
    /\ ServersAtRest

NextStats ==
    \/ ServerStatsCached
    \/ ServerStatsComputed
    \/ PostMcpStats
    \/ GetApiStats
    \/ \E f \in Filenames, d \in IndexableDocs : WriterUpserts(f, d)
    \/ StatsTick

SpecStats == InitStats /\ [][NextStats]_vars

\* a statistics request answered by the entry point that computed the
\* snapshot current when it arrived
SameEntryPoint ==
    /\ statsReply # NotRun
    /\ statsReply.before # NotRun
    /\ statsReply.before.entry = statsReply.entry

\* the request was served as the five-second window prescribes
ServedByWindow ==
    IF statsReply.elapsed * MsPerSecond < CacheTimeout
    THEN ~statsReply.readStore /\ statsReply.stats = statsReply.before.stats
    ELSE statsReply.readStore

\* C18: a Stats call made less than 5 seconds after the Stats call that
\* computed the current snapshot returns that snapshot verbatim without
\* reading the store, even if records were upserted in between, and the
\* first Stats call made 5 seconds or more after it reads the store again;
\* so for separate requests through the long-lived server and through
\* POST /mcp alike.
C18_StatsServedFromSnapshotForFiveSeconds ==
    SameEntryPoint => ServedByWindow

\* the window as the long-lived server alone keeps it
LongLivedServerKeepsWindow ==
    (SameEntryPoint /\ statsReply.entry = "server") => ServedByWindow

(***************************************************************************)
(* The Number arithmetic of findSimilar.  A JavaScript Number is an IEEE   *)
(* 754 binary64: every division, subtraction, multiplication and addition  *)
(* gives the representable value nearest to the exact result, ties to the  *)
(* even significand.  Naturals too wide for an integer are sequences of    *)
(* limbs of LimbBits bits, the least significant first, without leading    *)
(* zero limbs.  The values here are never negative and stay far from       *)
(* overflow and underflow.                                                 *)
(***************************************************************************)
\* binary64: bits of the significand
SignificandBits == 53
\* bits of a limb, and the limb base 2^LimbBits
LimbBits == 14
LimbBase == 2^LimbBits
\* limbs of fraction drawn by the long division: more bits than a
\* significand needs for every quotient of at least 2^-15
QuotientLimbs == 5

\* 2^k for k in 0..LimbBits
PowersOfTwo ==
    <<1, 2, 4, 8, 16, 32, 64, 128, 256, 512, 1024, 2048, 4096, 8192, 16384>>
TwoTo(k) == PowersOfTwo[k + 1]

RECURSIVE StripLimbs(_)
StripLimbs(a) ==
    IF a = <<>> \/ a[Len(a)] # 0 THEN a ELSE StripLimbs(SubSeq(a, 1, Len(a) - 1))

\* a small integer as a natural
RECURSIVE LimbsOf(_)
LimbsOf(n) == IF n = 0 THEN <<>> ELSE <<n % LimbBase>> \o LimbsOf(n \div LimbBase)

\* a natural known to be small as an integer
RECURSIVE IntOf(_)
IntOf(a) == IF a = <<>> THEN 0 ELSE Head(a) + LimbBase * IntOf(Tail(a))

RECURSIVE AddLimbs(_, _, _)
AddLimbs(a, b, carry) ==
    IF a = <<>> /\ b = <<>> THEN (IF carry = 0 THEN <<>> ELSE <<carry>>)
    ELSE LET x == IF a = <<>> THEN 0 ELSE Head(a)
             y == IF b = <<>> THEN 0 ELSE Head(b)
             s == x + y + carry
         IN  <<s % LimbBase>> \o AddLimbs(IF a = <<>> THEN a ELSE Tail(a),
                                          IF b = <<>> THEN b ELSE Tail(b),
                                          s \div LimbBase)

\* a - b for a >= b
RECURSIVE SubLimbs(_, _, _)
SubLimbs(a, b, borrow) ==
    IF a = <<>> THEN <<>>
    ELSE LET y == IF b = <<>> THEN 0 ELSE Head(b)
             d == Head(a) - y - borrow
         IN  <<d % LimbBase>> \o SubLimbs(Tail(a), IF b = <<>> THEN b ELSE Tail(b),
                                          IF d < 0 THEN 1 ELSE 0)

\* a * d + carry for a limb d
RECURSIVE MulLimb(_, _, _)
MulLimb(a, d, carry) ==
    IF a = <<>> THEN (IF carry = 0 THEN <<>> ELSE <<carry>>)
    ELSE LET p == Head(a) * d + carry
         IN  <<p % LimbBase>> \o MulLimb(Tail(a), d, p \div LimbBase)

RECURSIVE MulLimbs(_, _)
MulLimbs(a, b) ==
    IF a = <<>> \/ b = <<>> THEN <<>>
    ELSE StripLimbs(AddLimbs(MulLimb(a, Head(b), 0),
                             <<0>> \o MulLimbs(a, Tail(b)), 0))

\* a < b on the lowest n limbs of two naturals of one length
RECURSIVE LessBelow(_, _, _)
LessBelow(a, b, n) ==
    IF n = 0 THEN FALSE
    ELSE IF a[n] # b[n] THEN a[n] < b[n]
    ELSE LessBelow(a, b, n - 1)

LessLimbs(a, b) ==
    IF Len(a) # Len(b) THEN Len(a) < Len(b) ELSE LessBelow(a, b, Len(a))

\* the number of bits of a natural
BitLength(a) ==
    IF a = <<>> THEN 0
    ELSE (Len(a) - 1) * LimbBits
            + (CHOOSE k \in 1..LimbBits : TwoTo(k - 1) <= a[Len(a)] /\ a[Len(a)] < TwoTo(k))

\* bit i of a natural, bit 1 the least significant
BitAt(a, i) ==
    LET limb == (i - 1) \div LimbBits + 1
    IN  IF limb > Len(a) THEN 0
        ELSE (a[limb] \div TwoTo((i - 1) % LimbBits)) % 2

\* a * 2^k
ShiftLeft(a, k) ==
    IF a = <<>> THEN <<>>
    ELSE [i \in 1..(k \div LimbBits) |-> 0] \o MulLimb(a, TwoTo(k % LimbBits), 0)

\* a \div 2^k
ShiftRight(a, k) ==
    LET q    == k \div LimbBits
        s    == k % LimbBits
        high == IF q >= Len(a) THEN <<>> ELSE SubSeq(a, q + 1, Len(a))
    IN  StripLimbs([i \in 1..Len(high) |->
            high[i] \div TwoTo(s)
            + (IF i < Len(high) THEN (high[i + 1] % TwoTo(s)) * TwoTo(LimbBits - s)
               ELSE 0)])

\* the Number NaN, and the Number of value m * 2^e
NotANumber == [nan |-> TRUE]
Float(m, e) == [nan |-> FALSE, m |-> m, e |-> e]
Zero == Float(<<>>, 0)

\* the binary64 nearest to (m + f) * 2^e, where 0 <= f < 1 and f > 0 iff
\* sticky: round to nearest, ties to even
Round64(m, e, sticky) ==
    LET n == BitLength(m)
    IN  IF m = <<>> THEN Zero
        ELSE IF n <= SignificandBits
        THEN Float(ShiftLeft(m, SignificandBits - n), e - (SignificandBits - n))
        ELSE LET k      == n - SignificandBits
                 kept   == ShiftRight(m, k)
                 guard  == BitAt(m, k)
                 rest   == sticky \/ \E i \in 1..(k - 1) : BitAt(m, i) = 1
                 up     == guard = 1 /\ (rest \/ BitAt(kept, 1) = 1)
                 r      == IF up THEN AddLimbs(kept, <<1>>, 0) ELSE kept
             IN  IF BitLength(r) > SignificandBits
                 THEN Float(ShiftRight(r, 1), e + k + 1)
                 ELSE Float(r, e + k)

\* the limbs of the fraction r / b (r < b), the most significant LAST,
\* with the remainder left after them
RECURSIVE FractionLimbs(_, _, _, _)
FractionLimbs(r, b, k, acc) ==
    IF k = 0 THEN [limbs |-> acc, r |-> r]
    ELSE FractionLimbs((LimbBase * r) % b, b, k - 1, <<(LimbBase * r) \div b>> \o acc)

\* a / b on integers held as Numbers
Divide(a, b) ==
    IF b = 0 THEN NotANumber  \* here only 0 / 0 arises
    ELSE LET f == FractionLimbs(a % b, b, QuotientLimbs, <<>>)
         IN  Round64(StripLimbs(f.limbs \o LimbsOf(a \div b)),
                     0 - QuotientLimbs * LimbBits, f.r # 0)

\* the two significands brought to the lesser exponent
Aligned(x, y) ==
    LET e == IF x.e < y.e THEN x.e ELSE y.e
    IN  [x |-> ShiftLeft(x.m, x.e - e), y |-> ShiftLeft(y.m, y.e - e), e |-> e]

\* x + y
Plus(x, y) ==
    IF x.nan \/ y.nan THEN NotANumber
    ELSE IF x.m = <<>> THEN y
    ELSE IF y.m = <<>> THEN x
    ELSE LET a == Aligned(x, y) IN Round64(AddLimbs(a.x, a.y, 0), a.e, FALSE)

\* x - y for x >= y
Minus(x, y) ==
    IF x.nan \/ y.nan THEN NotANumber
    ELSE IF y.m = <<>> THEN x
    ELSE LET a == Aligned(x, y)
         IN  Round64(StripLimbs(SubLimbs(a.x, a.y, 0)), a.e, FALSE)

\* x * y
Times(x, y) ==
    IF x.nan \/ y.nan THEN NotANumber
    ELSE Round64(MulLimbs(x.m, y.m), x.e + y.e, FALSE)

\* x >= y: false when either is NaN
GreaterEqual(x, y) ==
    IF x.nan \/ y.nan THEN FALSE
    ELSE LET a == Aligned(x, y) IN ~LessLimbs(a.x, a.y)

\* Math.round(x) for a Number x >= 0: the nearest integer, halves upward
MathRound(x) ==
    IF x.m = <<>> THEN 0
    ELSE IF x.e >= 0 THEN IntOf(ShiftLeft(x.m, x.e))
    ELSE IntOf(ShiftRight(x.m, 0 - x.e)) + BitAt(x.m, 0 - x.e)

(***************************************************************************)
(* findSimilar of mcp-server.js, on stores the pipeline can leave behind.  *)
(***************************************************************************)
\* the documents of the stores findSimilar is asked about, each with a name
SimilarDocs ==
    << [ EmptyDoc EXCEPT !.name = "Empty" ],
       [ NodesDoc(<<SlackNode, CodeNode>>) EXCEPT !.name = "Slack Code" ],
       [ NodesDoc(<<SlackNode, CodeNode, CodeNode>>) EXCEPT !.name = "Slack Code Code" ],
       [ NodesDoc(<<WebhookNode, SlackNode>>) EXCEPT !.name = "Hook Slack" ],
       [ NodesDoc(Rep(SlackNode, 6)) EXCEPT !.name = "Six" ],
       [ NodesDoc(Rep(SlackNode, 7)) EXCEPT !.name = "Seven" ],
       [ NodesDoc(Rep(SlackNode, 8)) EXCEPT !.name = "Eight" ] >>

SimilarDocIds == 1..Len(SimilarDocs)

\* rows of one document in a row, so that more candidates qualify than
\* one reply returns
LongRun == 21

\* the file of row i
SimilarFile(i) == "wf" \o ToString(i) \o ".json"
MissingFile == "missing.json"

\* database.js 262: analyzeWorkflow of the file holding document d; the
\* documents carry a name, so only filename depends on the file
RECURSIVE AnalysesUpTo(_)
AnalysesUpTo(d) ==
    IF d = 0 THEN <<>>
    ELSE Append(AnalysesUpTo(d - 1),
                analyzeWorkflow(SimilarFile(0), SimilarDocs[d], Len(DocCatalog) + d))

SimilarAnalysis == AnalysesUpTo(Len(SimilarDocs))

\* database.js 293-319: the row the i-th upsert into an empty store writes,
\* file i holding document docs[i]
FreshRow(docs, i) ==
    NewRow([SimilarAnalysis[docs[i]] EXCEPT !.filename = SimilarFile(i)], i, 0)

\* database.js 85-90: the row trigger workflows_ai adds for it, the i-th of
\* workflows_fts
FreshShadow(docs, i) ==
    [(CHOOSE r \in workflows_ai({}, FreshRow(docs, i)) : TRUE) EXCEPT !.rowid = i]

\* database.js 278: the store after upsertWorkflow has written, for each
\* document of docs in turn, a file of its own that holds it
StoreOfDocs(docs) ==
    [ workflows     |-> {FreshRow(docs, i) : i \in 1..Len(docs)},
      workflows_fts |-> {FreshShadow(docs, i) : i \in 1..Len(docs)},
      nextId        |-> Len(docs) + 1,
      now           |-> 0 ]

\* the stores findSimilar is asked about: one file, one file or LongRun
\* files alike, and one file more
SimilarStores ==
    { StoreOfDocs(<<a>> \o Rep(b, n) \o <<c>>) :
        a \in SimilarDocIds, b \in SimilarDocIds, c \in SimilarDocIds, n \in {1, LongRun} }

\* JSON.parse of the integrations column, for each text the column holds
\* in these stores
RECURSIVE Parsed(_)
Parsed(texts) ==
    IF texts = {} THEN <<>>
    ELSE LET t == CHOOSE x \in texts : TRUE
         IN  (t :> JsonParse(t)) @@ Parsed(texts \ {t})

SimilarColumn ==
    Parsed({JsonStringify(SimilarAnalysis[d].integrations) : d \in SimilarDocIds})

\* mcp-server.js 1275: the default of similarity_threshold, in tenths
DefaultThresholdTenths == 7

\* similarity_threshold as the request carries it: absent, or a decimal
\* number of tenths
ThresholdTenths == {2, 9}
NoThreshold == [given |-> FALSE]
Tenths(k) == [given |-> TRUE, tenths |-> k]

\* mcp-server.js 1275: similarity_threshold = 0.7 when absent
ThresholdOf(threshold) ==
    IF threshold.given THEN threshold.tenths ELSE DefaultThresholdTenths

\* the Number a decimal text of k tenths denotes: the binary64 nearest to
\* k / 10
NumberOfTenths(k) == Divide(k, 10)

\* the literals 1, 0.5, 0.3, 0.2 and 100 of lines 1300-1312
One == Divide(1, 1)
Half == NumberOfTenths(5)
ThreeTenths == NumberOfTenths(3)
TwoTenths == NumberOfTenths(2)
Hundred == Divide(100, 1)

\* mcp-server.js 1294, 1313: refIntegrations.filter(i => wfIntegrations.includes(i))
SharedIntegrations(refIntegrations, wfIntegrations) ==
    SelectSeq(refIntegrations, LAMBDA i : i \in Range(wfIntegrations))

\* mcp-server.js 1291-1306: the similarity of a candidate to the reference,
\* each given by its integrations column, node_count and trigger_type
Similarity(reference, workflow) ==
    LET refIntegrations == SimilarColumn[reference[1]]
        wfIntegrations  == SimilarColumn[workflow[1]]
        intersection    == Len(SharedIntegrations(refIntegrations, wfIntegrations))
        union           == Cardinality(Range(refIntegrations) \cup Range(wfIntegrations))
        integrationSimilarity ==
            IF union > 0 THEN Divide(intersection, union) ELSE Zero
        nodeDiff        == IF reference[2] > workflow[2]
                           THEN reference[2] - workflow[2]
                           ELSE workflow[2] - reference[2]
        nodeCountSimilarity ==
            Minus(One, Divide(nodeDiff, Max2(reference[2], workflow[2])))
        triggerSimilarity ==
            IF reference[3] = workflow[3] THEN One ELSE Half
    IN  Plus(Plus(Times(integrationSimilarity, Half),
                  Times(nodeCountSimilarity, ThreeTenths)),
             Times(triggerSimilarity, TwoTenths))

\* the columns of a row that findSimilar reads to score it
Profile(w) == <<w.integrations, w.node_count, w.trigger_type>>

Profiles ==
    { <<JsonStringify(SimilarAnalysis[d].integrations), SimilarAnalysis[d].node_count,
        SimilarAnalysis[d].trigger_type>> : d \in SimilarDocIds }

\* mcp-server.js 1312: Math.round(similarity * 100) / 100, held as the
\* number of hundredths; n / 100 grows with n, so the comparator of line
\* 1321 orders the scores as it orders these integers
Score(similarity) ==
    IF similarity.nan THEN 0 ELSE MathRound(Times(similarity, Hundred))

\* mcp-server.js 1308: similarity >= similarity_threshold, for each
\* threshold of tenths a request can carry
RECURSIVE Qualifies(_, _)
Qualifies(similarity, tenths) ==
    IF tenths = {} THEN <<>>
    ELSE LET k == CHOOSE x \in tenths : TRUE
         IN  (k :> GreaterEqual(similarity, NumberOfTenths(k)))
                @@ Qualifies(similarity, tenths \ {k})

\* the similarity of a candidate to a reference by their columns, with its
\* score and the thresholds it reaches
Scored(reference, workflow) ==
    LET similarity == Similarity(reference, workflow)
    IN  [ similarity |-> similarity,
          score      |-> Score(similarity),
          qualifies  |->
              Qualifies(similarity, ThresholdTenths \cup {DefaultThresholdTenths}) ]

\* Scored of one reference and each candidate, worked out once
RECURSIVE ScoredRow(_, _)
ScoredRow(reference, candidates) ==
    IF candidates = {} THEN <<>>
    ELSE LET w == CHOOSE x \in candidates : TRUE
         IN  (w :> Scored(reference, w)) @@ ScoredRow(reference, candidates \ {w})

RECURSIVE ScoredRows(_)
ScoredRows(references) ==
    IF references = {} THEN <<>>
    ELSE LET r == CHOOSE x \in references : TRUE
         IN  (r :> ScoredRow(r, Profiles)) @@ ScoredRows(references \ {r})

ScoredOf == ScoredRows(Profiles)

\* mcp-server.js 1286: the rows of the scan, in the order of their rowid
ScanOrder(rows) ==
    [k \in 1..Cardinality(rows) |->
        CHOOSE w \in rows : Cardinality({x \in rows : x.id < w.id}) = k - 1]

\* mcp-server.js 1308-1317: the entry pushed for a candidate of the given
\* score
SimilarEntry(reference, workflow, score) ==
    [ filename            |-> workflow.filename,
      name                |-> workflow.name,
      similarity_score    |-> score,
      shared_integrations |-> SharedIntegrations(SimilarColumn[reference.integrations],
                                                 SimilarColumn[workflow.integrations]),
      trigger_type        |-> workflow.trigger_type,
      node_count          |-> workflow.node_count ]

\* mcp-server.js 1290-1318: allWorkflows.forEach with the similarity of
\* each workflow to the reference given by scored, pushing an entry for
\* each workflow that reaches the threshold
Pushed(reference, allWorkflows, similarity_threshold, scored) ==
    LET pushed == SelectSeq(allWorkflows,
                      LAMBDA workflow :
                          scored[Profile(workflow)].qualifies[similarity_threshold])
    IN  [i \in 1..Len(pushed) |->
            SimilarEntry(reference, pushed[i], scored[Profile(pushed[i])].score)]

Similarities(reference, allWorkflows, similarity_threshold) ==
    Pushed(reference, allWorkflows, similarity_threshold, ScoredOf[Profile(reference)])

\* the entries with one of the given scores, the higher score first and
\* entries of one score in the order they have in entries
RECURSIVE ByScoreDesc(_, _)
ByScoreDesc(entries, scores) ==
    IF scores = {} THEN <<>>
    ELSE LET top == CHOOSE x \in scores : \A y \in scores : y <= x
         IN  SelectSeq(entries, LAMBDA e : e.similarity_score = top)
                \o ByScoreDesc(entries, scores \ {top})

\* mcp-server.js 1321: sort((a, b) => b.similarity_score - a.similarity_score),
\* a stable sort
SortByScoreDesc(entries) ==
    ByScoreDesc(entries, {entries[i].similarity_score : i \in 1..Len(entries)})

\* mcp-server.js 1335: slice(0, 20)
MaxSimilar == 20

\* mcp-server.js 1870-1880: createErrorResponse
createErrorResponse(message) == [isError |-> TRUE, message |-> message]

\* mcp-server.js 1323-1337: the result for a reference and the sorted
\* similarities
SimilarResult(reference, similarities) ==
    [ isError |-> FALSE,
      reference_workflow |->
          [ filename     |-> reference.filename,
            name         |-> reference.name,
            integrations |-> SimilarColumn[reference.integrations],
            node_count   |-> reference.node_count ],
      similar_workflows |->
          SubSeq(similarities, 1, Min2(MaxSimilar, Len(similarities))),
      total_found |-> Len(similarities) ]

\* the scan without WHERE filename != ?
SimilarToAll(reference, args) ==
    SimilarResult(reference,
        SortByScoreDesc(
            Similarities(reference, ScanOrder(workflows),
                         ThresholdOf(args.similarity_threshold))))

\* mcp-server.js 1286-1321: the scan of the other workflows, scored against
\* the reference and sorted
SimilarTo(reference, args) ==
    SimilarResult(reference,
        SortByScoreDesc(
            Similarities(reference,
                         ScanOrder({w \in workflows : w.filename # args.filename}),
                         ThresholdOf(args.similarity_threshold))))

\* mcp-server.js 1270-1344: findSimilar
findSimilar(args) ==
    LET found == {w \in workflows : w.filename = args.filename}
    IN  IF found = {}
        THEN createErrorResponse("Workflow not found: " \o args.filename)
        ELSE SimilarTo(CHOOSE w \in found : TRUE, args)

\* the find_similar requests
SimilarCalls ==
    [ entry : {"find_similar"},
      filename : {SimilarFile(i) : i \in {1, 2, 3, LongRun + 2}} \cup {MissingFile},
      similarity_threshold : {NoThreshold} \cup {Tenths(k) : k \in ThresholdTenths} ]

\* mcp-server.js 637-638: tools/call find_similar
FindSimilar(c) ==
    /\ call' = c
    /\ reply' = findSimilar(c)
    /\ UNCHANGED <<prevReply, walk>>
    /\ SearchFrame

InitSimilar ==
    /\ initialized = TRUE
    /\ \E s \in SimilarStores :
          /\ workflows = s.workflows
          /\ workflows_fts = s.workflows_fts
          /\ nextId = s.nextId
          /\ now = s.now
    /\ corpus = [f \in Filenames |-> 0]
    /\ pc = "idle"
    /\ forceReindex = FALSE
    /\ remaining = {}
    /\ processed = 0 /\ skipped = 0 /\ errors = 0 /\ total = 0
    /\ cleanRuns = 0
    /\ input = EmptyDoc
    /\ dbOut = NotRun
    /\ mcpOut = NotRun
    /\ ServersAtRest

NextSimilar == \E c \in SimilarCalls : FindSimilar(c)

SpecSimilar == InitSimilar /\ [][NextSimilar]_vars

(***************************************************************************)
(* Properties of findSimilar.  The scores the properties speak of are      *)
(* exact fractions: combined = num / den with den = 20 * union * max.      *)
(***************************************************************************)
\* a find_similar request was answered with a list
SimilarAnswered == call.entry = "find_similar" /\ ~reply.isError

\* the reference of the request answered, and the other records
ReferenceRecord == CHOOSE w \in workflows : w.filename = call.filename
OtherRecords == workflows \ {ReferenceRecord}

IntegrationSet(w) == Range(SimilarColumn[w.integrations])
SharedSet(r, w) == IntegrationSet(r) \cap IntegrationSet(w)

\* the denominators of the Jaccard index and of the node-count similarity,
\* 1 where the index is 0 by definition
UnionSize(r, w) == Max2(1, Cardinality(IntegrationSet(r) \cup IntegrationSet(w)))
LargerCount(r, w) == Max2(1, Max2(r.node_count, w.node_count))
SmallerCount(r, w) == Min2(r.node_count, w.node_count)

\* 0.5 * Jaccard + 0.3 * nodeCountSimilarity + 0.2 * (1 if the trigger
\* types are equal, else 0.5), as a fraction; nodeCountSimilarity is
\* 1 - |difference| / max, and 0 when both counts are 0
CombinedDen(r, w) == 20 * UnionSize(r, w) * LargerCount(r, w)
CombinedNum(r, w) ==
    10 * Cardinality(SharedSet(r, w)) * LargerCount(r, w)
    + 6 * SmallerCount(r, w) * UnionSize(r, w)
    + (IF r.trigger_type = w.trigger_type THEN 4 ELSE 2)
        * UnionSize(r, w) * LargerCount(r, w)

\* combined >= the threshold of the request
ReachesThreshold(r, w) ==
    10 * CombinedNum(r, w) >= ThresholdOf(call.similarity_threshold) * CombinedDen(r, w)

\* combined of v >= combined of w
ScoresAtLeast(r, v, w) ==
    CombinedNum(r, v) * CombinedDen(r, w) >= CombinedNum(r, w) * CombinedDen(r, v)

Qualifying == {w \in OtherRecords : ReachesThreshold(ReferenceRecord, w)}

RecordNamed(f) == CHOOSE w \in workflows : w.filename = f

Returned == reply.similar_workflows

\* the candidates returned are kept ones, each once, and total counts all
\* the kept ones
KeepsExactlyQualifying ==
    /\ reply.total_found = Cardinality(Qualifying)
    /\ \A i \in 1..Len(Returned) : Returned[i].filename \in {w.filename : w \in Qualifying}
    /\ \A i, j \in 1..Len(Returned) : Returned[i].filename = Returned[j].filename => i = j

ReturnsAtMostTwenty ==
    /\ Len(Returned) <= 20
    /\ reply.total_found <= 20 => Len(Returned) = reply.total_found

InOrderOfScore ==
    \A i, j \in 1..Len(Returned) :
        i < j => ScoresAtLeast(ReferenceRecord, RecordNamed(Returned[i].filename),
                               RecordNamed(Returned[j].filename))

ListsSharedIntegrations ==
    \A i \in 1..Len(Returned) :
        LET shared == Returned[i].shared_integrations
        IN  /\ Range(shared) = SharedSet(ReferenceRecord, RecordNamed(Returned[i].filename))
            /\ \A a, b \in 1..Len(shared) : shared[a] = shared[b] => a = b

\* C19: FindSimilar scores every record other than the reference as
\* combined = 0.5*Jaccard(integrations) + 0.3*nodeCountSimilarity
\* + 0.2*(1 if trigger_type equal else 0.5), keeps exactly the candidates
\* with combined >= threshold, returns at most 20 of them in non-increasing
\* order of score, reports as total the number of all kept candidates, and
\* each returned candidate lists exactly the integrations it shares with
\* the reference.
C19_FindSimilarKeepsRanksAndCounts ==
    SimilarAnswered =>
        /\ KeepsExactlyQualifying
        /\ ReturnsAtMostTwenty
        /\ InOrderOfScore
        /\ ListsSharedIntegrations

\* C20: when the reference and a candidate both have node_count = 0,
\* nodeCountSimilarity is 0, so the candidate's combined score is
\* 0.5*integrationSimilarity + 0.2*triggerSimilarity and the candidate is
\* kept whenever that value is >= threshold.
C20_BothCountsZeroStillScored ==
    SimilarAnswered =>
        \A w \in OtherRecords :
            (/\ ReferenceRecord.node_count = 0
             /\ w.node_count = 0
             /\ ReachesThreshold(ReferenceRecord, w))
            => (\/ \E i \in 1..Len(Returned) : Returned[i].filename = w.filename
                \/ reply.total_found > 20)

(***************************************************************************)
(* findSimilar for a file without a record, and the reference among the    *)
(* candidates.                                                             *)
(***************************************************************************)
\* the latest request was find_similar
SimilarAsked == call.entry = "find_similar"

\* the store holds a record of the reference file of the request
HasReference == \E w \in workflows : w.filename = call.filename

\* the reply is the not-found error and carries nothing else
NotFoundOnly ==
    /\ reply.isError
    /\ reply.message = "Workflow not found: " \o call.filename
    /\ DOMAIN reply = {"isError", "message"}

\* the reference is none of the candidates of the reply
ReferenceNotListed ==
    /\ ~reply.isError
    /\ reply.reference_workflow.filename = call.filename
    /\ \A i \in 1..Len(reply.similar_workflows) :
          reply.similar_workflows[i].filename # call.filename

\* C21: find_similar for a filename without a record answers the not-found
\* error and no partial result (no reference data, no candidate list); for
\* a filename with a record the reference is never among the candidates
C21_NotFoundOrReferenceLeftOut ==
    SimilarAsked => IF HasReference THEN ReferenceNotListed ELSE NotFoundOnly

\* a request for a file without a record was answered, in a store whose
\* other records would have been candidates
C21_Witness ==
    /\ SimilarAsked
    /\ ~HasReference
    /\ workflows # {}
    /\ reply.isError

(***************************************************************************)
(* Searches with a page size or an offset out of range.                    *)
(***************************************************************************)
\* GET /api/workflows with per_page below 1 or above 100, or a page before
\* the first
HttpOutOfRange ==
    { [entry |-> "http", q |-> "", trigger |-> "all", complexity |-> "all",
       active_only |-> FALSE, page |-> p, per_page |-> n]
        : <<p, n>> \in { <<1, MinPerPage - 1>>, <<1, MaxPerPage + 1>>, <<0, MaxLimit>> } }

\* search_workflows with limit above 100, or a negative offset
McpOutOfRange ==
    { [McpArgs EXCEPT !.limit = MaxPerPage + 1],
      [McpArgs EXCEPT !.offset = 0 - 1],
      [McpArgs EXCEPT !.limit = MaxPerPage + 1, !.sort = "node_count"] }

NextValidate ==
    \/ \E c \in HttpOutOfRange : HttpSearch(c)
    \/ \E c \in McpOutOfRange : McpSearch(c)

SpecValidate == InitQuery /\ [][NextValidate]_vars

\* the parameters of request c that are out of range: limit < 1,
\* limit > 100, offset < 0 (per_page and page for GET /api/workflows)
OffendingFields(c) ==
    IF c.entry = "http"
    THEN {f \in {"per_page"} : c.per_page < MinPerPage \/ c.per_page > MaxPerPage}
            \cup {f \in {"page"} : c.page < 1}
    ELSE IF c.entry = "mcp"
    THEN {f \in {"limit"} : c.limit < MinPerPage \/ c.limit > MaxPerPage}
            \cup {f \in {"offset"} : c.offset < 0}
    ELSE {}

\* reply r is an error that names one of the given fields
ValidationError(r, fields) ==
    /\ ~Answered(r)
    /\ "field" \in DOMAIN r
    /\ r.field \in fields

\* C22: a search with limit < 1, limit > 100 or offset < 0 answers a
\* validation error that names the offending field; it neither runs the
\* search with that value nor adjusts the value silently
C22_OutOfRangeIsValidationError ==
    OffendingFields(call) # {} => ValidationError(reply, OffendingFields(call))

(***************************************************************************)
(* The query-side operations on a store that is not there: a               *)
(* WorkflowDatabase not yet initialized, and an MCP server whose           *)
(* setupDatabase found no database.                                        *)
(***************************************************************************)
\* a call that threw, with the message of the error
Thrown(message) == [threw |-> TRUE, message |-> message]

\* mcp-server.js 687-689, 804-806, 852-854, 1271-1273: the guard each of
\* the four tools starts with
WithDatabase(replies) ==
    IF serverDb = "null"
    THEN {createErrorResponse("Database not available. Please run \"npm run init\" and \"npm run index\" first.")}
    ELSE replies

\* mcp-server.js 803-849: getWorkflow
getWorkflow(args) ==
    LET found == {w \in workflows : w.filename = args.filename}
    IN  IF found = {}
        THEN createErrorResponse("Workflow not found: " \o args.filename)
        ELSE IF corpus[args.filename] = 0
        THEN createErrorResponse("Workflow file not found: " \o args.filename)
        ELSE IF ~DocCatalog[corpus[args.filename]].wellFormed
        THEN createErrorResponse("Failed to get workflow: " \o "Unexpected token")
        ELSE [ isError  |-> FALSE,
               metadata |-> ReplyDocument(CHOOSE w \in found : TRUE),
               analyzed_at |-> (CHOOSE w \in found : TRUE).analyzed_at,
               workflow |-> corpus[args.filename] ]

\* mcp-server.js 851-929: getStatistics
getStatistics ==
    IF CacheHit(statsCache, statsCacheTime)
    THEN {[isError |-> FALSE, stats |-> statsCache.stats]}
    ELSE {[isError |-> FALSE, stats |-> mcpStatistics(rows)] : rows \in Enumerations(workflows)}

\* mcp-server.js 626-640: tools/call of the four query tools
CallTool(c) ==
    WithDatabase(IF c.entry = "mcp" THEN mcpSearchWorkflows(c)
                 ELSE IF c.entry = "get_workflow" THEN {getWorkflow(c)}
                 ELSE IF c.entry = "get_statistics" THEN getStatistics
                 ELSE {findSimilar(c)})

\* the calls of the four tools
ToolCalls ==
    McpCalls \cup SimilarCalls
        \cup {[entry |-> "get_workflow", filename |-> f] : f \in Filenames}
        \cup {[entry |-> "get_statistics"]}

\* database.js 360-364: searchWorkflows throws on a database not initialized
CoreSearch(c) ==
    { IF r.threw /\ ~initialized THEN Thrown("Database not initialized") ELSE r
        : r \in dbSearchWorkflows(c.q, c.trigger, c.complexity, c.active_only,
                                  LimitOf(c), OffsetOf(c)) }

\* database.js 467-468: getWorkflowDetail reads this.db, null until
\* initDatabase has run
CoreDetail(filename) ==
    IF ~initialized THEN Thrown("Cannot read properties of null (reading 'prepare')")
    ELSE getWorkflowDetail(filename)

\* whether the store is there for the operation of the request
StoreThere(c) == IF c.entry \in {"http", "detail", "stats"} THEN initialized
                 ELSE serverDb = "open"

UnavailableFrame ==
    /\ prevReply' = NotRun
    /\ walk' = NoWalk
    /\ UNCHANGED <<workflows, workflows_fts, nextId, now, corpus, runVars, cleanRuns,
                   analyzeVars, statsVars, hostVars>>

\* a tool of the MCP server is called
ToolCalled(c) ==
    /\ \E r \in CallTool(c) : reply' = r
    /\ call' = [request |-> c, entry |-> c.entry, there |-> StoreThere(c)]
    /\ UNCHANGED initialized
    /\ UnavailableFrame

\* searchWorkflows of the WorkflowDatabase is called
CoreSearched(c) ==
    /\ \E r \in CoreSearch(c) : reply' = r
    /\ call' = [request |-> c, entry |-> c.entry, there |-> StoreThere(c)]
    /\ UNCHANGED initialized
    /\ UnavailableFrame

\* getWorkflowDetail of the WorkflowDatabase is called
CoreDetailed(f) ==
    /\ reply' = CoreDetail(f)
    /\ call' = [request |-> f, entry |-> "detail", there |-> initialized]
    /\ UNCHANGED initialized
    /\ UnavailableFrame

\* database.js 419-465: getStats of the WorkflowDatabase is called; it
\* initializes the database first if need be
CoreStats ==
    /\ initialize
    /\ reply' = [threw |-> FALSE, stats |-> dbGetStats]
    /\ call' = [request |-> "", entry |-> "stats", there |-> initialized]
    /\ UnavailableFrame

NextUnavailable ==
    \/ \E c \in ToolCalls : ToolCalled(c)
    \/ \E c \in HttpCalls : CoreSearched(c)
    \/ \E f \in Filenames : CoreDetailed(f)
    \/ CoreStats

SpecUnavailable == Init /\ [][NextUnavailable]_vars

\* the reply is an error value that says the store is not available
StoreUnavailable(r) ==
    /\ "isError" \in DOMAIN r
    /\ r.isError
    /\ "message" \in DOMAIN r
    /\ StartsWith(r.message, "Database not ")

\* C23: every query-side operation (search, fetch by file name, statistics,
\* find similar) called while the store is not initialized or not there
\* returns an error value saying that the store is unavailable; none throws
C23_UnavailableStoreIsErrorValue ==
    (call.entry # "none" /\ ~call.there) => StoreUnavailable(reply)

(***************************************************************************)
(* Records of files that are gone.                                         *)
(***************************************************************************)
\* the file names the store holds a record of
StoredNames == {w.filename : w \in workflows}

\* the stored file names whose file the directory no longer lists
StaleNames == StoredNames \ jsonFiles

\* every stale record is fetched by its file name, listed by the search
\* without text and filters, and counted by the statistics
StaleServed ==
    \A f \in StaleNames :
        /\ getWorkflowDetail(f).found
        /\ \A r \in dbSearchWorkflows("", "all", "all", FALSE, 20, 0) :
              /\ ~r.threw
              /\ \E i \in DOMAIN r.workflows : r.workflows[i].filename = f
        /\ dbGetStats.total = Cardinality(StoredNames)

RowsOf(f, records, shadows) ==
    <<{w \in records : w.filename = f}, {r \in shadows : r.filename = f}>>

\* every file still to come is uncounted and every file done is counted once
CountersAddUp ==
    processed + skipped + errors + Cardinality(remaining) = total

\* a step of a run that is done with file f counts it in exactly one of the
\* three counters, and writes the rows of f if and only if it counts it as
\* processed
CountsOnce(f) ==
    /\ f \in remaining /\ f \notin remaining' =>
          /\ remaining' = remaining \ {f}
          /\ <<processed', skipped', errors'>> \in
                {<<processed + 1, skipped, errors>>, <<processed, skipped + 1, errors>>,
                 <<processed, skipped, errors + 1>>}
    /\ RowsOf(f, workflows', workflows_fts') # RowsOf(f, workflows, workflows_fts)
          <=> (f \in remaining /\ f \notin remaining' /\ processed' = processed + 1)

\* C25: in every index run that returns, each document file of the corpus is
\* counted in exactly one of processed, skipped and errors, so that
\* processed + skipped + errors = total, and the store is written for a file
\* during the run if and only if the file is counted as processed
C25_EachFileCountedOnce ==
    /\ [](CountersAddUp)
    /\ [](pc = "idle" => processed + skipped + errors = total)
    /\ [][\A f \in Filenames : CountsOnce(f)]_vars

\* C25 witness: a run over two files has returned, one file processed and
\* the other one not
C25_Witness ==
    /\ pc = "idle" /\ initialized
    /\ total = 2 /\ processed = 1 /\ skipped + errors = 1

(***************************************************************************)
(* Lazy initialization under concurrency: several operations are started   *)
(* on one WorkflowDatabase (the db of http-server.js) before any of them   *)
(* has finished.  An async function runs up to its first await that is     *)
(* not yet settled, and fs.ensureDir settles in a later turn of the loop.   *)
(***************************************************************************)
LazyFrame ==
    UNCHANGED <<workflows, workflows_fts, nextId, now, corpus, cleanRuns,
                analyzeVars, call, prevReply, walk, statsVars, serverDb, stream,
                rpc, sse>>

\* database.js 20-21, 249-252, 419-422, 26-29: the operation is called; it
\* reads this.initialized and, if it is false, runs initDatabase up to
\* await fs.ensureDir(dbDir)
LazyCalled(c, o) ==
    /\ lazy[c].at = "idle"
    /\ lazy' = [lazy EXCEPT ![c] =
                  [op |-> o, at |-> IF initialized THEN "initialized" ELSE "ensureDir"]]
    /\ UNCHANGED <<storeVars, runVars, reply, opened>>
    /\ LazyFrame

\* database.js 31-40, 23: ensureDir has settled; this.db = new Database(),
\* the pragmas, createTables, and this.initialized = true
LazyOpened(c) ==
    /\ lazy[c].at = "ensureDir"
    /\ opened' = opened + 1
    /\ initialize
    /\ lazy' = [lazy EXCEPT ![c].at = "initialized"]
    /\ UNCHANGED <<runVars, reply>>
    /\ LazyFrame

\* database.js 24: initialize returns; 424-465: getStats reads the store
LazyReturned(c) ==
    /\ lazy[c].at = "initialized"
    /\ lazy[c].op.name # "indexWorkflows"
    /\ reply' = IF lazy[c].op.name = "getStats"
                THEN [threw |-> FALSE, stats |-> dbGetStats] ELSE reply
    /\ lazy' = [lazy EXCEPT ![c] = NotCalled]
    /\ UNCHANGED <<initialized, runVars, opened>>
    /\ LazyFrame

\* database.js 254-259: indexWorkflows goes on to list the directory
LazyIndexes(c) ==
    /\ lazy[c].at = "initialized"
    /\ lazy[c].op.name = "indexWorkflows"
    /\ pc = "idle"
    /\ nextId + Cardinality(WillUpsert(lazy[c].op.force)) - 1 <= MaxId
    /\ pc' = "indexing"
    /\ forceReindex' = lazy[c].op.force
    /\ remaining' = jsonFiles
    /\ total' = Cardinality(jsonFiles)
    /\ processed' = 0 /\ skipped' = 0 /\ errors' = 0
    /\ lazy' = [lazy EXCEPT ![c] = NotCalled]
    /\ UNCHANGED <<initialized, reply, opened>>
    /\ LazyFrame

NextLazy ==
    \/ \E c \in Callers, o \in LazyOps : LazyCalled(c, o)
    \/ \E c \in Callers : LazyOpened(c)
    \/ \E c \in Callers : LazyReturned(c)
    \/ \E c \in Callers : LazyIndexes(c)
    \/ FinishIndex

SpecLazy == Init /\ [][NextLazy]_vars

\* C26: when operations that initialize the database lazily (initialize,
\* indexWorkflows, getStats) are started concurrently on a WorkflowDatabase
\* not yet initialized, the database is opened at most once: no second
\* connection is made, and this.db is never overwritten while it is open
C26_OpenedAtMostOnce == opened <= 1

(***************************************************************************)
(* Streamed search: streamSearchWorkflows of mcp-server.js, behind          *)
(* POST /mcp/stream.  The stores are those of the search, and stores of     *)
(* more rows than one chunk holds.                                          *)
(***************************************************************************)
\* mcp-server.js 2620: const chunkSize = 10
ChunkSize == 10
\* mcp-server.js 2540: limit = 20
StreamDefaultLimit == 20
\* the rows a store holds beyond one chunk
MaxExtra == 2

\* n in decimal, three digits
Pad3(n) ==
    SubSeq("0123456789", (n \div 100) + 1, (n \div 100) + 1)
        \o SubSeq("0123456789", ((n \div 10) % 10) + 1, ((n \div 10) % 10) + 1)
        \o SubSeq("0123456789", (n % 10) + 1, (n % 10) + 1)

\* the rows upserts leave for n files "w001.json", "w002.json", ... that hold
\* the indexable documents of the catalog in turn, under names of their
\* own; the last row of the first chunk and the first row of the second
\* are two files of one name
ManyRows(n) ==
    { [ NewRow(AnalysisOf[OrderFile, CHOOSE d \in IndexableDocs :
                   Cardinality({e \in IndexableDocs : e < d}) = i % Cardinality(IndexableDocs)],
               i, 0)
          EXCEPT !.filename = "w" \o Pad3(i) \o ".json",
                 !.name = "Sync " \o Pad3(IF i = ChunkSize + 1 THEN ChunkSize ELSE i) ]
        : i \in 1..n }

\* database.js 85-90: the shadow rows trigger workflows_ai has written for them
ManyStore(n) ==
    [ workflows     |-> ManyRows(n),
      workflows_fts |-> { [ rowid |-> w.id, filename |-> w.filename, name |-> w.name,
                            description |-> w.description,
                            integrations |-> w.integrations, tags |-> w.tags ]
                          : w \in ManyRows(n) },
      nextId        |-> n + 1,
      now           |-> 0 ]

\* the rows that tie with r in the sort term
TiesOf(rows, sort, r) ==
    {x \in rows : ~Precedes(sort, x, r) /\ ~Precedes(sort, r, x)}

\* the orders ORDER BY can give (those of OrderBy), built from the rank of
\* each row and an order of each group of rows that tie
OrderByRank(rows, sort) ==
    LET tied   == {g \in {TiesOf(rows, sort, r) : r \in rows} : Cardinality(g) > 1}
        before == [r \in rows |-> Cardinality({x \in rows : Precedes(sort, x, r)})]
    IN  { [i \in 1..Cardinality(rows) |->
             CHOOSE r \in rows :
                 LET g == TiesOf(rows, sort, r)
                 IN  IF Cardinality(g) = 1 THEN before[r] = i - 1
                     ELSE /\ before[r] < i /\ i <= before[r] + Cardinality(g)
                          /\ e[g][i - before[r]] = r]
          : e \in { e \in [tied -> UNION {Enumerations(g) : g \in tied}] :
                      \A g \in tied : e[g] \in Enumerations(g) } }

\* mcp-server.js 2556-2598: the rows the statement of the stream selects
streamSelected(args) ==
    LET text  == Trim(args.query) # ""
        found == IF text
                 THEN { x \in workflows :
                          \E r \in workflows_fts :
                              /\ x.filename = r.filename
                              /\ FtsMatches(ShadowContent(r), mcpParsed[args.query]) }
                 ELSE workflows
        categoryWorkflows ==
            IF args.category \in DOMAIN loadCategories
            THEN loadCategories[args.category] ELSE <<>>
    IN  { [w |-> x, shadow |-> 0] : x \in
            { x \in found :
                /\ (args.category # "" /\ Len(categoryWorkflows) > 0)
                      => \E i \in 1..Len(categoryWorkflows) : x.filename = categoryWorkflows[i]
                /\ args.trigger # "" => x.trigger_type = args.trigger
                /\ args.complexity # "" => x.complexity = args.complexity
                /\ args.active_only => x.active = 1
                /\ \A i \in 1..Len(args.integrations) :
                       Like(x.integrations, "%\"" \o args.integrations[i] \o "\"%") } }

\* mcp-server.js 2601-2602: the total the count statement gives.  The
\* pattern /SELECT.*?FROM/ matches 'SELECT * FROM' of the statement without
\* text; '.' matches no line break, so it does not match the statement with
\* text, whose SELECT and FROM are on two lines: get() then returns the
\* first row of the search, which has no column total, or undefined
streamTotal(args) ==
    LET text == Trim(args.query) # ""
    IN  IF text /\ ~mcpParsed[args.query].ok THEN [threw |-> TRUE, message |-> "fts5: syntax error"]
        ELSE IF text /\ streamSelected(args) = {}
        THEN [threw |-> TRUE, message |-> "Cannot destructure property 'total' of undefined"]
        ELSE [threw |-> FALSE,
              total |-> IF text THEN Undefined
                        ELSE Number(Cardinality(streamSelected(args)))]

\* offset < total && sentCount < limit, a comparison with undefined being false
StreamGoesOn(s) ==
    /\ s.total.defined /\ s.offset < s.total.n
    /\ s.sentCount < s.args.limit

StreamFrame ==
    UNCHANGED <<storeVars, now, corpus, runVars, cleanRuns, analyzeVars,
                searchVars, statsVars, serverDb, lazy, opened, rpc, sse>>

\* mcp-server.js 2524-2609: the call up to the loop
StreamStarted(c) ==
    /\ stream.at = "idle"
    /\ stream' =
         IF serverDb = "null"
         THEN [at |-> "done", args |-> c,
               events |-> <<[type |-> "error", message |-> "Database not available"]>>]
         ELSE LET started == [type |-> "status", message |-> "Starting search...", progress |-> 0]
                  counted == streamTotal(c)
              IN  IF counted.threw
                  THEN [at |-> "done", args |-> c,
                        events |-> <<started, [type |-> "error", message |-> counted.message]>>]
                  ELSE [at |-> "loop", args |-> c, total |-> counted.total,
                        offset |-> 0, sentCount |-> 0,
                        events |-> <<started, [type |-> "status", progress |-> 25,
                                               total |-> counted.total]>>]
    /\ StreamFrame

\* mcp-server.js 2624-2655: one turn of the loop
StreamChunk ==
    /\ stream.at = "loop"
    /\ StreamGoesOn(stream)
    /\ \E ordered \in OrderByRank(streamSelected(stream.args), stream.args.sort) :
          LET chunkLimit == Min2(ChunkSize, stream.args.limit - stream.sentCount)
              page       == LimitOffset(ordered, chunkLimit, stream.offset)
          IN  stream' =
                [stream EXCEPT
                   !.events = IF Len(page) = 0 THEN @
                              ELSE Append(@,
                                     [type      |-> "data",
                                      workflows |-> [i \in 1..Len(page) |-> ReplyDocument(page[i].w)],
                                      offset    |-> stream.offset,
                                      progress  |-> MathRound(Times(Divide(stream.offset + Len(page),
                                                                            stream.total.n), Hundred))]),
                   !.sentCount = @ + Len(page),
                   !.offset = @ + ChunkSize]
    /\ StreamFrame

\* mcp-server.js 2657-2662: the loop is left
StreamCompleted ==
    /\ stream.at = "loop"
    /\ ~StreamGoesOn(stream)
    /\ stream' = [stream EXCEPT !.at = "done",
                                !.events = Append(@, [type |-> "complete", total |-> stream.sentCount,
                                                      progress |-> 100])]
    /\ StreamFrame

\* streamed search_workflows requests: limits below, at and above a chunk,
\* the sort orders, a text, and filters
StreamCalls ==
    { [McpArgs EXCEPT !.limit = n, !.sort = s]
        : n \in {1, ChunkSize, ChunkSize + 1, StreamDefaultLimit},
          s \in {"name", "node_count", "analyzed_at"} }
    \cup
    { [McpArgs EXCEPT !.limit = StreamDefaultLimit, !.query = q, !.trigger = f[1],
                      !.complexity = f[2], !.active_only = f[3]]
        : q \in {"", "slack", "zzz"}, f \in FilterChoices }

\* the servers are started on a store of the search, or on a store of more
\* rows than a chunk holds
InitStream ==
    /\ initialized = TRUE
    /\ \E s \in SearchableStores \cup {ManyStore(ChunkSize + n) : n \in 1..MaxExtra} :
          /\ workflows = s.workflows
          /\ workflows_fts = s.workflows_fts
          /\ nextId = s.nextId
          /\ now = s.now
    /\ corpus = [f \in Filenames |-> 0]
    /\ pc = "idle"
    /\ forceReindex = FALSE
    /\ remaining = {}
    /\ processed = 0 /\ skipped = 0 /\ errors = 0 /\ total = 0
    /\ cleanRuns = 0
    /\ input = EmptyDoc
    /\ dbOut = NotRun
    /\ mcpOut = NotRun
    /\ ServersAtRest

\* the orders of a store of many rows are enumerated for the sort by name
\* only, where two rows tie
NextStream ==
    \/ \E c \in StreamCalls :
          /\ Cardinality(workflows) > ChunkSize => c.sort = "name"
          /\ StreamStarted(c)
    \/ StreamChunk
    \/ StreamCompleted

SpecStream == InitStream /\ [][NextStream]_vars


\* the file names of the rows the data events of a stream carry, in the
\* order they were written
RECURSIVE RowsSent(_)
RowsSent(events) ==
    IF events = <<>> THEN <<>>
    ELSE RowsSent(SubSeq(events, 1, Len(events) - 1)) \o
         ( LET last == events[Len(events)]
           IN  IF last.type = "data"
               THEN [i \in 1..Len(last.workflows) |-> last.workflows[i].filename]
               ELSE <<>> )

\* the stream has ended with exactly one terminal event, written last
EndsOnce(events) ==
    /\ events # <<>>
    /\ events[Len(events)].type \in {"complete", "error"}
    /\ \A i \in 1..(Len(events) - 1) : events[i].type \notin {"complete", "error"}

\* the rows sent are the first min(limit, total) rows of the sorted result,
\* in chunks of at most ChunkSize rows, and the complete event counts them
SentTheFirstRows(s) ==
    LET rows == streamSelected(s.args)
        last == s.events[Len(s.events)]
    IN  /\ \E ordered \in OrderByRank(rows, s.args.sort) :
              RowsSent(s.events) =
                  [i \in 1..Min2(s.args.limit, Cardinality(rows)) |-> ordered[i].w.filename]
        /\ \A i \in 1..Len(s.events) :
              s.events[i].type = "data" => Len(s.events[i].workflows) <= ChunkSize
        /\ last.total = Len(RowsSent(s.events))

\* C27: a streamed search on a store that is available ends with exactly
\* one terminal event (complete or error), written after all data events;
\* when it completes, the chunks put together are the first min(limit,
\* total) rows of the sorted result without gap or duplicate, each chunk has
\* at most 10 rows, and complete.total is the number of rows sent -- for a
\* search with text as for one with filters only
C27_StreamSendsTheFirstRows ==
    (stream.at = "done" /\ serverDb = "open") =>
        /\ EndsOnce(stream.events)
        /\ stream.events[Len(stream.events)].type = "complete" => SentTheFirstRows(stream)

(***************************************************************************)
(* Bulk analysis: bulkAnalyze of mcp-server.js, and streamBulkAnalyze,      *)
(* which reads the same rows in chunks.                                     *)
(***************************************************************************)
\* mcp-server.js 2717: const chunkSize = 100
BulkChunkSize == 100
\* mcp-server.js 1253, 2786: slice(0, 10)
TopCommon == 10

\* criteria with no property set: an absent number is 0, an absent array
\* is empty (either is skipped by the tests of 1195-1212)
NoCriteria ==
    [min_nodes |-> 0, max_nodes |-> 0, trigger_types |-> <<>>,
     must_include_integrations |-> <<>>]

\* mcp-server.js 1192-1208, 2691-2705: the rows the statement selects
bulkSelected(criteria) ==
    { w \in workflows :
        /\ criteria.min_nodes # 0 => w.node_count >= criteria.min_nodes
        /\ criteria.max_nodes # 0 => w.node_count <= criteria.max_nodes
        /\ Len(criteria.trigger_types) > 0 => w.trigger_type \in Range(criteria.trigger_types) }

\* the rows of a statement without ORDER BY, in the order of the scan (the
\* same for every run of one statement on one store)
BulkScan(rows) ==
    LET ranked == {<<Cardinality({x \in rows : x.id < w.id}) + 1, w>> : w \in rows}
    IN  [k \in 1..Cardinality(rows) |-> (CHOOSE p \in ranked : p[1] = k)[2]]

\* mcp-server.js 1211-1217, 2732-2738: the rows that hold every integration asked for
bulkFiltered(criteria, rows) ==
    SelectSeq(rows, LAMBDA w :
        \A i \in 1..Len(criteria.must_include_integrations) :
            criteria.must_include_integrations[i] \in Range(ParsedColumn[w.integrations]))

\* counts[name] = (counts[name] || 0) + 1 for every name of every list, in
\* the order of the lists: the object keeps its keys in the order of their
\* first insertion
CountLists(entries, lists) ==
    LET occ      == UNION {{<<i, p>> : p \in 1..Len(lists[i])} : i \in 1..Len(lists)}
        nameAt(o) == lists[o[1]][o[2]]
        earlier(a, b) == a[1] < b[1] \/ (a[1] = b[1] /\ a[2] < b[2])
        known    == {entries[i].name : i \in 1..Len(entries)}
        fresh    == {nameAt(o) : o \in occ} \ known
        \* each new key with the place of its first insertion
        firsts   == { <<k, CHOOSE o \in {x \in occ : nameAt(x) = k} :
                             \A x \in {y \in occ : nameAt(y) = k} : ~earlier(x, o)>>
                      : k \in fresh }
        count(k) == Cardinality({o \in occ : nameAt(o) = k})
    IN  [i \in 1..Len(entries) |-> [entries[i] EXCEPT !.count = @ + count(entries[i].name)]]
        \o [r \in 1..Cardinality(fresh) |->
              LET p == CHOOSE f \in firsts :
                          Cardinality({g \in firsts : earlier(g[2], f[2])}) = r - 1
              IN  [name |-> p[1], count |-> count(p[1])]]

\* the sum of the values, each as often as rows hold it
RECURSIVE SumOfCounts(_, _)
SumOfCounts(values, rows) ==
    IF values = {} THEN 0
    ELSE LET v == CHOOSE x \in values : TRUE
         IN  v * Cardinality({i \in 1..Len(rows) : rows[i].node_count = v})
             + SumOfCounts(values \ {v}, rows)

NoPatterns ==
    [total_matching |-> 0, common_integrations |-> <<>>, trigger_distribution |-> <<>>,
     complexity_distribution |-> <<>>, total_nodes |-> 0]

\* mcp-server.js 1229-1246, 2741-2759: filtered.forEach
bulkCounted(patterns, filtered) ==
    [ total_matching          |-> patterns.total_matching + Len(filtered),
      common_integrations     |->
          CountLists(patterns.common_integrations,
                     [i \in 1..Len(filtered) |-> ParsedColumn[filtered[i].integrations]]),
      trigger_distribution    |->
          CountLists(patterns.trigger_distribution,
                     [i \in 1..Len(filtered) |-> <<filtered[i].trigger_type>>]),
      complexity_distribution |->
          CountLists(patterns.complexity_distribution,
                     [i \in 1..Len(filtered) |-> <<filtered[i].complexity>>]),
      total_nodes             |->
          patterns.total_nodes
            + SumOfCounts({filtered[i].node_count : i \in 1..Len(filtered)}, filtered) ]

\* mcp-server.js 1248, 2770-2771, 2780-2781
bulkAverage(patterns) ==
    IF patterns.total_matching > 0
    THEN MathRound(Divide(patterns.total_nodes, patterns.total_matching)) ELSE 0

\* mcp-server.js 1248-1254, 2780-2787: the average, and the ten integrations
\* counted most often
bulkFinished(patterns) ==
    LET sorted == SortByCountDesc(patterns.common_integrations)
    IN  [ total_matching          |-> patterns.total_matching,
          common_integrations     |-> SubSeq(sorted, 1, Min2(TopCommon, Len(sorted))),
          trigger_distribution    |-> patterns.trigger_distribution,
          complexity_distribution |-> patterns.complexity_distribution,
          average_nodes           |-> bulkAverage(patterns) ]

\* mcp-server.js 1183-1268: bulkAnalyze
bulkAnalyze(args) ==
    IF serverDb = "null"
    THEN createErrorResponse("Database not available. Please run \"npm run init\" and \"npm run index\" first.")
    ELSE [ isError  |-> FALSE,
           patterns |-> bulkFinished(bulkCounted(NoPatterns,
                            bulkFiltered(args.criteria, BulkScan(bulkSelected(args.criteria))))) ]

BulkFrame ==
    UNCHANGED <<storeVars, now, corpus, runVars, cleanRuns, analyzeVars,
                prevReply, walk, statsVars, serverDb, lazy, opened, rpc, sse>>

\* streamBulkAnalyze whose chunks start one row late
bulkChunkLate(s) ==
    LimitOffset(BulkScan(bulkSelected(s.args.criteria)), BulkChunkSize, s.offset + 1)

\* mcp-server.js 2728-2729: the rows of the chunk at the offset
bulkChunk(s) ==
    LimitOffset(BulkScan(bulkSelected(s.args.criteria)), BulkChunkSize, s.offset)

\* mcp-server.js 2673-2725: the call up to the loop
BulkStarted(c) ==
    /\ stream.at = "idle"
    /\ stream' =
         IF serverDb = "null"
         THEN [at |-> "done", args |-> c,
               events |-> <<[type |-> "error", message |-> "Database not available"]>>]
         ELSE [at |-> "bulk", args |-> c,
               totalWorkflows |-> Cardinality(bulkSelected(c.criteria)),
               offset |-> 0, patterns |-> NoPatterns,
               events |-> <<[type |-> "status", message |-> "Starting bulk analysis...", progress |-> 0],
                            [type |-> "status", progress |-> 10,
                             total |-> Cardinality(bulkSelected(c.criteria))]>>]
    /\ UNCHANGED <<reply, call>>
    /\ BulkFrame

\* mcp-server.js 2727-2777: one turn of the loop
BulkChunk ==
    /\ stream.at = "bulk"
    /\ stream.offset < stream.totalWorkflows
    /\ LET read     == bulkChunk(stream)
           patterns == bulkCounted(stream.patterns, bulkFiltered(stream.args.criteria, read))
       IN  stream' =
             [stream EXCEPT
                !.patterns = patterns,
                !.events = Append(@,
                    [type |-> "progress",
                     progress |-> MathRound(Times(Divide(stream.offset + Len(read),
                                                         stream.totalWorkflows),
                                                  Divide(90, 1))) + 10,
                     current_stats |->
                         [workflows_analyzed   |-> patterns.total_matching,
                          unique_integrations |-> Len(patterns.common_integrations),
                          average_nodes       |-> bulkAverage(patterns)]]),
                !.offset = @ + BulkChunkSize]
    /\ UNCHANGED <<reply, call>>
    /\ BulkFrame

\* mcp-server.js 2779-2793: the loop is left
BulkCompleted ==
    /\ stream.at = "bulk"
    /\ stream.offset >= stream.totalWorkflows
    /\ stream' =
         [stream EXCEPT
            !.at = "done",
            !.events = Append(@,
                [type |-> "complete", progress |-> 100,
                 data |-> [total_nodes |-> stream.patterns.total_nodes]
                              @@ bulkFinished(stream.patterns)])]
    /\ UNCHANGED <<reply, call>>
    /\ BulkFrame

\* tools/call bulk_analyze without stream
BulkAnalyzed(c) ==
    /\ stream.at = "idle"
    /\ call # c
    /\ reply' = bulkAnalyze(c)
    /\ call' = c
    /\ UNCHANGED stream
    /\ BulkFrame

\* bulk_analyze requests: no criteria, bounds on the node count, trigger
\* types, integrations
BulkCalls ==
    { [entry |-> "bulk", criteria |-> c] : c \in
        { NoCriteria,
          [NoCriteria EXCEPT !.min_nodes = 3],
          [NoCriteria EXCEPT !.max_nodes = 2],
          [NoCriteria EXCEPT !.min_nodes = 2, !.max_nodes = 3],
          [NoCriteria EXCEPT !.min_nodes = 4],
          [NoCriteria EXCEPT !.trigger_types = <<"Manual">>],
          [NoCriteria EXCEPT !.trigger_types = <<"Manual", "Scheduled">>],
          [NoCriteria EXCEPT !.trigger_types = <<"Webhook">>],
          [NoCriteria EXCEPT !.must_include_integrations = <<"Slack">>],
          [NoCriteria EXCEPT !.must_include_integrations = <<"Webhook", "Cron">>],
          [NoCriteria EXCEPT !.must_include_integrations = <<"slack">>],
          [NoCriteria EXCEPT !.min_nodes = 3, !.must_include_integrations = <<"Slack">>] } }

\* the servers are started on a store of a few rows, of as many rows as a
\* chunk holds, or of more
InitBulk ==
    /\ initialized = TRUE
    /\ \E s \in {ManyStore(n) : n \in 0..MaxExtra}
                 \cup {ManyStore(BulkChunkSize + n) : n \in 0..MaxExtra} :
          /\ workflows = s.workflows
          /\ workflows_fts = s.workflows_fts
          /\ nextId = s.nextId
          /\ now = s.now
    /\ corpus = [f \in Filenames |-> 0]
    /\ pc = "idle"
    /\ forceReindex = FALSE
    /\ remaining = {}
    /\ processed = 0 /\ skipped = 0 /\ errors = 0 /\ total = 0
    /\ cleanRuns = 0
    /\ input = EmptyDoc
    /\ dbOut = NotRun
    /\ mcpOut = NotRun
    /\ ServersAtRest

NextBulk ==
    \/ \E c \in BulkCalls : BulkAnalyzed(c)
    \/ \E c \in BulkCalls : BulkStarted(c)
    \/ BulkChunk
    \/ BulkCompleted

SpecBulk == InitBulk /\ [][NextBulk]_vars

\* the entries of a counting object, whatever the order of its keys
EntriesOf(entries) == {entries[i] : i \in 1..Len(entries)}

\* C28: for every criteria and every store, the complete event of the
\* streamed bulk analysis (chunks of 100 rows) reports the total_matching,
\* trigger_distribution, complexity_distribution and average_nodes that
\* bulkAnalyze reports on the same store, the store not being written
\* during the stream
C28_StreamedBulkEqualsBulk ==
    (stream.at = "done" /\ stream.args.entry = "bulk" /\ serverDb = "open") =>
        LET streamed == stream.events[Len(stream.events)]
            direct   == bulkAnalyze(stream.args)
        IN  /\ streamed.type = "complete"
            /\ ~direct.isError
            /\ streamed.data.total_matching = direct.patterns.total_matching
            /\ EntriesOf(streamed.data.trigger_distribution)
                 = EntriesOf(direct.patterns.trigger_distribution)
            /\ EntriesOf(streamed.data.complexity_distribution)
                 = EntriesOf(direct.patterns.complexity_distribution)
            /\ streamed.data.average_nodes = direct.patterns.average_nodes

\* C28 witness: a stream of two chunks has completed, rows matching in both
C28_Witness ==
    /\ stream.at = "done" /\ stream.args.entry = "bulk"
    /\ stream.totalWorkflows > BulkChunkSize
    /\ Len(stream.events) = 5
    /\ stream.events[5].data.total_matching > BulkChunkSize

(***************************************************************************)
(* HTTP mode: transport.onMessage of runHttp and handleMcpRequest.          *)
(***************************************************************************)
\* the id member of a message: absent, a number, a string, or null
NoId == [type |-> "undefined"]
MessageIds ==
    {NoId, [type |-> "null"]}
        \cup {[type |-> "number", n |-> n] : n \in 0..MaxId}
        \cup {[type |-> "string", s |-> s] : s \in {"", "a"}}

\* !id of JavaScript: undefined, null, 0 and "" are falsy
Falsy(id) ==
    \/ id.type \in {"undefined", "null"}
    \/ id.type = "number" /\ id.n = 0
    \/ id.type = "string" /\ id.s = ""

\* the methods of the messages; "" stands for a message without method
RpcMethods ==
    {"initialize", "notifications/initialized", "notifications/cancelled",
     "notifications/progress", "notifications/other", "shutdown", "tools/list",
     "ping", ""}

\* tools/call messages: two tools that read the store, a tool that does not
\* exist, and a message without params.name
ToolMessages ==
    { [method |-> "tools/call", tool |-> c.entry, arguments |-> c]
        : c \in { [McpArgs EXCEPT !.query = q] : q \in {"", "slack", "slack cron"} }
                \cup {[entry |-> "get_workflow", filename |-> f] : f \in Filenames} }
    \cup {[method |-> "tools/call", tool |-> t] : t \in {"no_such_tool", "undefined"}}

RpcMessages ==
    { [id |-> i] @@ m
        : i \in MessageIds,
          m \in {[method |-> x] : x \in RpcMethods} \cup ToolMessages }

\* mcp-server.js 796-800, 845-848: a tool whose statement throws on a
\* connection that has been closed returns an error value
ToolReplies(c) ==
    IF serverDb # "closed" THEN CallTool(c)
    ELSE {createErrorResponse(
            (IF c.entry = "mcp" THEN "Search failed: " ELSE "Failed to get workflow: ")
                \o "The database connection is not open")}

\* mcp-server.js 1883-2234: the outcomes of handleMcpRequest(method, params):
\* a result, or an error thrown
handleMcpRequest(m) ==
    IF m.method = "initialize"
    THEN {[threw |-> FALSE, result |-> [protocolVersion |-> "2024-11-05"]]}
    ELSE IF m.method \in {"notifications/initialized", "notifications/cancelled",
                          "notifications/progress"}
    THEN {[threw |-> FALSE, result |-> [success |-> TRUE]]}
    ELSE IF m.method = "shutdown"
    THEN {[threw |-> FALSE, result |-> <<>>]}
    ELSE IF m.method = "tools/list"
    THEN {[threw |-> FALSE, result |-> [tools |-> "tools"]]}
    ELSE IF m.method = "tools/call"
    THEN (IF "arguments" \in DOMAIN m
          THEN {[threw |-> FALSE, result |-> r] : r \in ToolReplies(m.arguments)}
          ELSE {[threw |-> TRUE, message |-> "Unknown tool: " \o m.tool]})
    ELSE {[threw |-> FALSE, result |-> [jsonrpc |-> "2.0", result |-> "null"]]}

NoResponse == [sent |-> FALSE]

\* mcp-server.js 2355-2417: transport.onMessage
onMessage(m, outcome) ==
    LET isNotification ==
            Falsy(m.id) /\ m.method # "" /\ Includes(m.method, "notifications/")
    IN  IF outcome.threw
        THEN (IF m.id # NoId
              THEN [sent |-> TRUE, jsonrpc |-> "2.0", id |-> m.id,
                    error |-> [code |-> 0 - 32603, message |-> "Internal error",
                               data |-> [details |-> outcome.message, method |-> m.method]]]
              ELSE NoResponse)
        ELSE IF isNotification THEN NoResponse
        ELSE [sent |-> TRUE, jsonrpc |-> "2.0", id |-> m.id, result |-> outcome.result]

\* a message arrives (POST /mcp, POST /stream/message, the WebSocket) and
\* transport.onMessage handles it; mcp-server.js 1903-1910: shutdown closes
\* the database
MessageHandled(m) ==
    /\ \E outcome \in handleMcpRequest(m) :
          rpc' = [handled |-> TRUE, message |-> m, threw |-> outcome.threw,
                  response |-> onMessage(m, outcome)]
    /\ serverDb' = IF m.method = "shutdown" /\ serverDb = "open" THEN "closed" ELSE serverDb
    /\ UNCHANGED <<storeVars, now, corpus, runVars, cleanRuns, analyzeVars,
                   searchVars, statsVars, lazy, opened, stream, sse>>

\* the server runs without a database, or on a store that indexing runs
\* have filled
InitRpc == Init \/ InitQuery

NextRpc == \E m \in RpcMessages : MessageHandled(m)

SpecRpc == InitRpc /\ [][NextRpc]_vars

\* C29: in HTTP mode the message handler returns, for every message that
\* carries an id, exactly one JSON-RPC response with the id of the request,
\* holding a result, or an error of code -32603 when the handler threw; and
\* no response for a message without id whose method is under notifications/
C29_OneResponsePerRequest ==
    rpc.handled =>
        /\ rpc.message.id.type \in {"number", "string"} =>
              /\ rpc.response.sent
              /\ rpc.response.id = rpc.message.id
              /\ IF rpc.threw
                 THEN "error" \in DOMAIN rpc.response /\ "result" \notin DOMAIN rpc.response
                      /\ rpc.response.error.code = 0 - 32603
                 ELSE "result" \in DOMAIN rpc.response /\ "error" \notin DOMAIN rpc.response
        /\ (rpc.message.id = NoId /\ StartsWith(rpc.message.method, "notifications/"))
              => ~rpc.response.sent

(***************************************************************************)
(* HTTP mode: the SSE clients of GET /stream, transport.send and the        *)
(* status broadcast of runHttp.                                             *)
(***************************************************************************)
\* the events that send and the status timer produce in one behaviour
MaxEvents == 3

\* mcp-server.js 89-95: the members of the object kept for an SSE client
SseClientMembers == {"res", "id", "send"}

\* calling a member that the object does not have raises a TypeError
Callable(member) == member \in SseClientMembers

SseFrame ==
    UNCHANGED <<storeVars, now, corpus, runVars, cleanRuns, analyzeVars,
                searchVars, statsVars, serverDb, lazy, opened, stream, rpc>>

\* mcp-server.js 76-100: GET /stream; the client is added to sseClients and
\* client.send writes the connection event to its response
SseConnected(k) ==
    /\ sse.running /\ k \notin sse.conns
    /\ sse' = [sse EXCEPT !.conns = @ \cup {k}, !.clients = @ \cup {k},
                          !.due[k] = 1,
                          !.got[k] = IF Callable("send") THEN 1 ELSE 0]
    /\ SseFrame

\* mcp-server.js 106-110: the connection closes; the handler of 'close'
\* deletes the client
SseClosed(k) ==
    /\ sse.running /\ k \in sse.conns
    /\ sse' = [sse EXCEPT !.conns = @ \ {k}, !.clients = @ \ {k},
                          !.due[k] = 0, !.got[k] = 0]
    /\ SseFrame

\* mcp-server.js 249-251, 258-260: forEach over sseClients calling
\* client.write; the record after it, and whether it raised
WriteToClients(s) ==
    IF Callable("write")
    THEN [raises |-> FALSE,
          after |-> [s EXCEPT !.due = [k \in SseConnections |->
                                          IF k \in s.clients THEN @[k] + 1 ELSE @[k]],
                              !.got = [k \in SseConnections |->
                                          IF k \in s.clients THEN @[k] + 1 ELSE @[k]]]]
    ELSE [raises |-> s.clients # {},
          after |-> [s EXCEPT !.due = [k \in SseConnections |->
                                          IF k \in s.clients THEN @[k] + 1 ELSE @[k]]]]

\* mcp-server.js 238-252: transport.send(message); an error it raises goes
\* to its caller
TransportSent ==
    /\ sse.running /\ sse.events < MaxEvents
    /\ LET w == WriteToClients(sse)
       IN  sse' = [w.after EXCEPT !.events = @ + 1,
                                  !.raised = @ \/ w.raises]
    /\ SseFrame

\* mcp-server.js 2469-2481, 254-261, 2504-2508: the timer of 30 s fires;
\* with a database it broadcasts the status, and an error raised in the
\* callback of the timer is an uncaught exception: process.exit(1)
StatusBroadcast ==
    /\ sse.running /\ sse.events < MaxEvents
    /\ IF serverDb = "null"
       THEN sse' = [sse EXCEPT !.events = @ + 1]
       ELSE LET w == WriteToClients(sse)
            IN  sse' = [w.after EXCEPT !.events = @ + 1,
                                       !.raised = @ \/ w.raises,
                                       !.running = ~w.raises,
                                       !.conns = IF w.raises THEN {} ELSE @]
    /\ SseFrame

InitSse == Init \/ InitQuery

NextSse ==
    \/ \E k \in SseConnections : SseConnected(k)
    \/ \E k \in SseConnections : SseClosed(k)
    \/ TransportSent
    \/ StatusBroadcast

SpecSse == InitSse /\ [][NextSse]_vars

\* C30: in HTTP mode with a Store available, the status broadcast and
\* transport.send deliver their event to every SSE client connected to
\* /stream without raising, the process keeps running while SSE clients are
\* connected, and the set of clients is the set of open connections
C30_BroadcastReachesEveryClient ==
    serverDb = "open" =>
        /\ sse.running /\ ~sse.raised
        /\ sse.clients = sse.conns
        /\ \A k \in sse.clients : sse.got[k] = sse.due[k]

=============================================================================
